---- MODULE Spec2Model ----
(***************************************************************************)
(* Model of the vault package's version-state verifier and mutation engine *)
(* (verifySecretState, canSemanticallyDelete, Delete, Undelete, Copy,      *)
(* Move, MoveCopyTree), of the command handlers built on them and of the   *)
(* vaultsync package (ComputeChanges, Plan, Apply, Pull), over a model of  *)
(* the KV backend (v1 and v2 mounts).  local is the list of the secrets    *)
(* in the directory that vaultsync synchronises.                           *)
(*                                                                         *)
(* An address is a parsed triple [p, k, v]: p a path (a sequence of        *)
(* segments), k a key ("" = none), v a version (0 = unspecified).          *)
(* Every engine function is an operator from a world w (the backend store, *)
(* the count of backend calls made, the log of mutating backend calls) to  *)
(* a result [w, err] or [w, err, val].  A backend call whose ordinal       *)
(* equals w.fail returns a transport error and changes nothing.  A step    *)
(* of a specification is one whole call of an engine function from an      *)
(* idle state; pre keeps the store the call started from.                  *)
(***************************************************************************)
EXTENDS Integers, Sequences, FiniteSets, TLC

VARIABLES store, mountV, mounts, pc, op, pre, err, log, ops, reported, local

vars ==
  <<store, mountV, mounts, pc, op, pre, err, log, ops, reported, local>>

(* ---------------------------- bounds ----------------------------------- *)

\* most versions a generated secret history retains
MaxLen == 2
\* highest number of the oldest retained version in a generated history
MaxFirst == 2
\* highest ordinal of a backend call that the model lets fail
MaxFailAt == 6
\* the latest backend call of a tree operation that may be made to fail
MaxTreeFailAt == 10

(* ----------------------------- data ------------------------------------ *)

Keys == {"k1", "k2"}

\* a secret's data: key -> value, 0 for a key the secret does not hold
Empty == [k \in Keys |-> 0]

SHas(d, k) == k \in Keys /\ d[k] # 0

SKeys(d) == {k \in Keys : d[k] # 0}

SEmpty(d) == SKeys(d) = {}

\* the garbage a placeholder version is written with
Placeholder == [k \in Keys |-> -1]

\* lifecycle states of one version
Alive == "A"
Deleted == "D"
Destroyed == "X"

NoMeta == [first |-> 1, vers |-> <<>>]

HasMeta(m) == Len(m.vers) > 0

LastNum(m) == m.first + Len(m.vers) - 1

Retained(m, n) == HasMeta(m) /\ m.first <= n /\ n <= LastNum(m)

VerAt(m, n) == m.vers[n - m.first + 1]

Addr(p, k, v) == [p |-> p, k |-> k, v |-> v]

(* ----------------------------- errors ---------------------------------- *)

OK == "ok"

\* secretNotFound{...} values (all of one Go type, told apart by message)
SecretNotFoundClass ==
  {"SecretNotFound", "IsDeleted", "IsDestroyed", "NotYetExist",
   "NoLiving", "NoLivingOrDeleted"}

IsSecretNotFound(e) == e \in SecretNotFoundClass

IsKeyNotFound(e) == e = "KeyNotFound"

IsNotFound(e) == IsSecretNotFound(e) \/ IsKeyNotFound(e)

Ret(w, e) == [w |-> w, err |-> e]

RetV(w, e, v) == [w |-> w, err |-> e, val |-> v]

(* --------------------------- backend ----------------------------------- *)

World(st, mv, ms, fail) ==
  [st |-> st, mv |-> mv, mounts |-> ms, n |-> 0, fail |-> fail, log |-> <<>>,
   ops |-> <<>>]

\* the next backend call is the one that fails
Fails(w) == w.fail = w.n + 1

Tick(w) == [w EXCEPT !.n = @ + 1]

Logged(w, c) == [Tick(w) EXCEPT !.log = Append(@, c)]

IsPath(w, p) == p \in DOMAIN w.st

Meta(w, p) == IF IsPath(w, p) THEN w.st[p] ELSE NoMeta

PutMeta(w, p, m) == [w EXCEPT !.st[p] = m]

\* vaultkv.KV.MountVersion
BMountVersion(w, p) ==
  IF Fails(w) THEN RetV(Tick(w), "Transport", 0)
  ELSE RetV(Tick(w), OK, w.mv)

\* vaultkv.KV.Versions: the retained version records, 404 without metadata
BVersions(w, p) ==
  IF Fails(w) THEN RetV(Tick(w), "Transport", NoMeta)
  ELSE IF ~HasMeta(Meta(w, p)) THEN RetV(Tick(w), "Backend404", NoMeta)
  ELSE RetV(Tick(w), OK, Meta(w, p))

\* vaultkv.KV.Get: version 0 reads the latest; a deleted, destroyed or
\* unretained version reads as 404
BGet(w, p, n) ==
  LET m == Meta(w, p)
      t == IF n = 0 THEN LastNum(m) ELSE n
  IN IF Fails(w) THEN RetV(Tick(w), "Transport", Empty)
     ELSE IF ~Retained(m, t) THEN RetV(Tick(w), "Backend404", Empty)
     ELSE IF VerAt(m, t).st # Alive THEN RetV(Tick(w), "Backend404", Empty)
     ELSE RetV(Tick(w), OK, VerAt(m, t).data)

\* vaultkv.KV.List: 404 unless something is stored strictly beneath p
IsBelow(q, p) ==
  Len(q) > Len(p) /\ SubSeq(q, 1, Len(p)) = p

BList(w, p) ==
  IF Fails(w) THEN Ret(Tick(w), "Transport")
  ELSE IF \E q \in DOMAIN w.st : IsBelow(q, p) /\ HasMeta(w.st[q])
       THEN Ret(Tick(w), OK)
  ELSE Ret(Tick(w), "Backend404")

\* vaultkv.KV.Set: a v2 mount appends a new Alive version; a v1 mount
\* replaces the only one
BSet(w, p, d) ==
  LET m == Meta(w, p)
      nv == [st |-> Alive, data |-> d]
      c == [call |-> "set", p |-> p, vs |-> {}, ok |-> ~Fails(w)]
  IN IF Fails(w) THEN Ret(Logged(w, c), "Transport")
     ELSE IF w.mv = 1 THEN Ret(PutMeta(Logged(w, c), p, [first |-> 1, vers |-> <<nv>>]), OK)
     ELSE IF ~HasMeta(m) THEN Ret(PutMeta(Logged(w, c), p, [first |-> 1, vers |-> <<nv>>]), OK)
     ELSE Ret(PutMeta(Logged(w, c), p, [m EXCEPT !.vers = Append(@, nv)]), OK)

\* the version numbers a call with the list `vs` acts on (none = latest)
Targets(m, vs) == IF vs = {} THEN {LastNum(m)} ELSE vs

MarkAll(m, vs, from, to) ==
  [m EXCEPT !.vers =
     [i \in 1..Len(m.vers) |->
        IF (m.first + i - 1) \in vs /\ m.vers[i].st \in from
        THEN [st |-> to, data |-> IF to = Destroyed THEN Empty ELSE m.vers[i].data]
        ELSE m.vers[i]]]

\* vaultkv.KV.Delete with V1Destroy: soft delete on v2, removal on v1
BDelete(w, p, vs) ==
  LET m == Meta(w, p)
      c == [call |-> "delete", p |-> p, vs |-> vs, ok |-> ~Fails(w)]
  IN IF Fails(w) THEN Ret(Logged(w, c), "Transport")
     ELSE IF ~HasMeta(m) THEN Ret(Logged(w, c), OK)
     ELSE IF w.mv = 1 THEN Ret(PutMeta(Logged(w, c), p, NoMeta), OK)
     ELSE Ret(PutMeta(Logged(w, c), p, MarkAll(m, Targets(m, vs), {Alive}, Deleted)), OK)

\* vaultkv.KV.Destroy
BDestroy(w, p, vs) ==
  LET m == Meta(w, p)
      c == [call |-> "destroy", p |-> p, vs |-> vs, ok |-> ~Fails(w)]
  IN IF Fails(w) THEN Ret(Logged(w, c), "Transport")
     ELSE IF ~HasMeta(m) THEN Ret(Logged(w, c), OK)
     ELSE IF w.mv = 1 THEN Ret(PutMeta(Logged(w, c), p, NoMeta), OK)
     ELSE Ret(PutMeta(Logged(w, c), p, MarkAll(m, vs, {Alive, Deleted}, Destroyed)), OK)

\* vaultkv.KV.DestroyAll: removes the metadata and every version
BDestroyAll(w, p) ==
  LET c == [call |-> "destroyall", p |-> p, vs |-> {}, ok |-> ~Fails(w)]
  IN IF Fails(w) THEN Ret(Logged(w, c), "Transport")
     ELSE IF ~IsPath(w, p) THEN Ret(Logged(w, c), OK)
     ELSE Ret(PutMeta(Logged(w, c), p, NoMeta), OK)

\* vaultkv.KV.Undelete: a destroyed version stays destroyed
BUndelete(w, p, vs) ==
  LET m == Meta(w, p)
      c == [call |-> "undelete", p |-> p, vs |-> vs, ok |-> ~Fails(w)]
  IN IF Fails(w) THEN Ret(Logged(w, c), "Transport")
     ELSE IF w.mv = 1 THEN Ret(Logged(w, c), "Unsupported")
     ELSE IF ~HasMeta(m) THEN Ret(Logged(w, c), OK)
     ELSE Ret(PutMeta(Logged(w, c), p, MarkAll(m, vs, {Deleted}, Alive)), OK)

(* ------------------------- vault: read, list, write -------------------- *)

\* a result is an operator's argument wherever the code goes on with it: the
\* operator named F and a stage of it reads "F, once that stage returned"

\* Vault.Versions, once the backend answered
VersionsGot(r) ==
  IF r.err = "Backend404" THEN RetV(r.w, "SecretNotFound", NoMeta) ELSE r

\* Vault.Versions
Versions(w, p) == VersionsGot(BVersions(w, p))

\* Vault.List, once the backend answered
ListGot(r) ==
  IF r.err = "Backend404" THEN Ret(r.w, "SecretNotFound") ELSE r

\* Vault.List
List(w, p) == ListGot(BList(w, p))

\* Vault.Read, once the backend answered: a key in the address narrows the
\* secret to that key
ReadGot(r, a) ==
  IF r.err = "Backend404" THEN RetV(r.w, "SecretNotFound", Empty)
  ELSE IF r.err # OK THEN r
  ELSE IF a.k # "" /\ ~SHas(r.val, a.k) THEN RetV(r.w, "KeyNotFound", Empty)
  ELSE IF a.k # "" THEN RetV(r.w, OK, [k \in Keys |-> IF k = a.k THEN r.val[k] ELSE 0])
  ELSE r

\* Vault.Read
Read(w, a) == ReadGot(BGet(w, a.p, a.v), a)

\* Vault.errIfFolder reporting a folder as a secret that was not found
ErrIfFolderListedAsNotFound(r) ==
  IF r.err = OK THEN Ret(r.w, "SecretNotFound")
  ELSE IF ~IsNotFound(r.err) THEN r
  ELSE Ret(r.w, OK)

\* Vault.errIfFolder, once the listing returned
ErrIfFolderListed(r) ==
  IF r.err = OK THEN Ret(r.w, "Folder")
  ELSE IF ~IsNotFound(r.err) THEN r
  ELSE Ret(r.w, OK)

\* Vault.errIfFolder: the path is listed as given, key and version included
ErrIfFolder(w, a) ==
  ErrIfFolderListed(
    IF a.k = "" /\ a.v = 0 THEN List(w, a.p)
    ELSE Ret(Tick(w), IF Fails(w) THEN "Transport" ELSE "SecretNotFound"))

(* ------------------------- version-state verifier ---------------------- *)

verifyStateAlive == 0
verifyStateAliveOrDeleted == 1

\* Vault.verifySecretExists, once errIfFolder returned; e is the read's error
VerifySecretExistsFolder(f, e) ==
  IF f.err # OK THEN Ret(f.w, f.err) ELSE Ret(f.w, e)

\* Vault.verifySecretExists, once the read returned
VerifySecretExistsRead(r, a) ==
  IF r.err # OK /\ IsNotFound(r.err)
  THEN VerifySecretExistsFolder(ErrIfFolder(r.w, a), r.err)
  ELSE Ret(r.w, r.err)

\* Vault.verifySecretExists (v1 mounts)
VerifySecretExists(w, a) == VerifySecretExistsRead(Read(w, a), a)

\* VerifyOneVersion without the Deleted test of a version required Alive
VerifyOneVersionNoDeletedTest(m, n, state) ==
  LET rec == IF n = 0 THEN m.vers[Len(m.vers)] ELSE VerAt(m, n)
  IN IF n # 0 /\ m.first > n THEN "IsDestroyed"
     ELSE IF n # 0 /\ n > LastNum(m) THEN "NotYetExist"
     ELSE IF rec.st = Destroyed THEN "IsDestroyed"
     ELSE OK

\* verifySecretState, AnyVersion = false: one version record decides
VerifyOneVersion(m, n, state) ==
  LET rec == IF n = 0 THEN m.vers[Len(m.vers)] ELSE VerAt(m, n)
  IN IF n # 0 /\ m.first > n THEN "IsDestroyed"
     ELSE IF n # 0 /\ n > LastNum(m) THEN "NotYetExist"
     ELSE IF rec.st = Destroyed THEN "IsDestroyed"
     ELSE IF state = verifyStateAlive /\ rec.st = Deleted THEN "IsDeleted"
     ELSE OK

\* VersionSatisfies letting a Destroyed version pass as AliveOrDeleted
VersionSatisfiesDestroyedToo(rec, state) ==
  \/ ~(rec.st = Deleted \/ rec.st = Destroyed)
  \/ state = verifyStateAliveOrDeleted

\* the test of the AnyVersion loop on one version record
VersionSatisfies(rec, state) ==
  \/ ~(rec.st = Deleted \/ rec.st = Destroyed)
  \/ (state = verifyStateAliveOrDeleted /\ rec.st # Destroyed)

\* verifySecretState, AnyVersion = true: any retained version may satisfy
VerifyAnyVersion(m, state) ==
  IF \E i \in 1..Len(m.vers) : VersionSatisfies(m.vers[i], state) THEN OK
  ELSE IF state = verifyStateAlive THEN "NoLiving"
  ELSE "NoLivingOrDeleted"

\* verifySecretState without metadata, once errIfFolder returned
VerifySecretStateFolder(f) ==
  IF f.err # OK THEN Ret(f.w, f.err) ELSE Ret(f.w, "SecretNotFound")

\* verifySecretState on a v2 mount, once the versions were listed
VerifySecretStateVersions(vs, a, any, state) ==
  IF vs.err # OK THEN
    IF IsNotFound(vs.err) THEN VerifySecretStateFolder(ErrIfFolder(vs.w, a))
    ELSE Ret(vs.w, vs.err)
  ELSE IF ~any THEN Ret(vs.w, VerifyOneVersion(vs.val, a.v, state))
  ELSE Ret(vs.w, VerifyAnyVersion(vs.val, state))

\* verifySecretState, once the mount version is known
VerifySecretStateMount(mv, a, any, state) ==
  IF mv.err # OK THEN Ret(mv.w, mv.err)
  ELSE IF mv.val = 1 THEN VerifySecretExists(mv.w, a)
  ELSE IF mv.val = 2 THEN VerifySecretStateVersions(Versions(mv.w, a.p), a, any, state)
  ELSE Ret(mv.w, "UnsupportedMount")

\* Vault.verifySecretState
VerifySecretState(w, a, any, state) ==
  VerifySecretStateMount(BMountVersion(w, a.p), a, any, state)

\* canSemanticallyDelete, once the addressed snapshot was read
CanSemanticallyDeleteRead(s, a) ==
  IF s.err # OK THEN Ret(s.w, s.err)
  ELSE IF Cardinality(SKeys(s.val)) # 1 \/ ~SHas(s.val, a.k)
       THEN Ret(s.w, "NonIsolatedKey")
  ELSE Ret(s.w, OK)

\* canSemanticallyDelete, once the versions were listed
CanSemanticallyDeleteVersions(vs, a) ==
  IF vs.err # OK THEN Ret(vs.w, vs.err)
  ELSE IF LastNum(vs.val) = a.v THEN Ret(vs.w, OK)
  ELSE CanSemanticallyDeleteRead(Read(vs.w, a), a)

\* Vault.canSemanticallyDelete
CanSemanticallyDelete(w, a) ==
  IF a.k = "" \/ a.v = 0 THEN Ret(w, OK)
  ELSE CanSemanticallyDeleteVersions(Versions(w, a.p), a)

(* ---------------------------- delete, undelete ------------------------- *)

\* numbers of all retained versions, ascending
VersionNumbers(m) == [i \in 1..Len(m.vers) |-> m.first + i - 1]

SeqToSet(s) == {s[i] : i \in 1..Len(s)}

RECURSIVE AdvanceIdx(_, _, _)
\* the inner loop of deleteEntireSecret: skip the targets below number n
AdvanceIdx(versions, verIdx, n) ==
  IF verIdx <= Len(versions) /\ versions[verIdx] < n
  THEN AdvanceIdx(versions, verIdx + 1, n)
  ELSE verIdx

RECURSIVE ShouldNuke(_, _, _, _)
\* the shouldNuke loop of deleteEntireSecret over allVersions[i..]:
\* no retained version would stay non-destroyed (verIdx is 1-based here)
ShouldNuke(m, versions, i, verIdx) ==
  IF i > Len(m.vers) THEN TRUE
  ELSE LET j == AdvanceIdx(versions, verIdx, m.first + i - 1)
       IN IF m.vers[i].st # Destroyed
             /\ (j > Len(versions) \/ versions[j] # m.first + i - 1)
          THEN FALSE
          ELSE ShouldNuke(m, versions, i + 1, j)

\* the versions list of deleteEntireSecret with destroy set: the explicit
\* version, or the latest
DestroyVersionsOf(m, a) == IF a.v # 0 THEN <<a.v>> ELSE <<LastNum(m)>>

\* deleteEntireSecret with destroy, deciding destroy-all by the latest
\* version alone
DeleteEntireSecretDestroyOnLatest(av, a) ==
  IF av.err # OK THEN Ret(av.w, av.err)
  ELSE IF DestroyVersionsOf(av.val, a)[1] = LastNum(av.val)
       THEN BDestroyAll(av.w, a.p)
  ELSE BDestroy(av.w, a.p, SeqToSet(DestroyVersionsOf(av.val, a)))

\* deleteEntireSecret with destroy, once the versions were listed
DeleteEntireSecretDestroy(av, a) ==
  IF av.err # OK THEN Ret(av.w, av.err)
  ELSE IF ShouldNuke(av.val, DestroyVersionsOf(av.val, a), 1, 1)
       THEN BDestroyAll(av.w, a.p)
  ELSE BDestroy(av.w, a.p, SeqToSet(DestroyVersionsOf(av.val, a)))

\* deleteEntireSecret with all, once the versions were listed
DeleteEntireSecretAll(av, a) ==
  IF av.err # OK THEN Ret(av.w, av.err)
  ELSE BDelete(av.w, a.p, SeqToSet(VersionNumbers(av.val)))

\* Vault.deleteEntireSecret
DeleteEntireSecret(w, a, destroy, all) ==
  IF destroy /\ all THEN BDestroyAll(w, a.p)
  ELSE IF destroy THEN DeleteEntireSecretDestroy(Versions(w, a.p), a)
  ELSE IF all THEN DeleteEntireSecretAll(Versions(w, a.p), a)
  ELSE BDelete(w, a.p, IF a.v # 0 THEN {a.v} ELSE {})

\* the client.Set half of Vault.Write, once the backend answered
WriteSetDone(r) ==
  IF r.err = "Backend404" THEN Ret(r.w, "SecretNotFound") ELSE r

\* the client.Set half of Vault.Write
WriteSet(w, p, d) == WriteSetDone(BSet(w, p, d))

\* what Secret.Delete(key) leaves of the data d
WithoutKey(d, key) == [k \in Keys |-> IF k = key THEN 0 ELSE d[k]]

\* deleteSpecificKey after the read, writing back whatever is left
DeleteSpecificKeyReadWriteBack(r, a) ==
  IF r.err # OK THEN Ret(r.w, r.err)
  ELSE IF ~SHas(r.val, a.k) THEN Ret(r.w, "KeyNotFound")
  ELSE WriteSet(r.w, a.p, WithoutKey(r.val, a.k))

\* deleteSpecificKey, once the latest secret was read; its Write of a
\* non-empty secret is the client.Set half of Vault.Write
DeleteSpecificKeyRead(r, a) ==
  IF r.err # OK THEN Ret(r.w, r.err)
  ELSE IF ~SHas(r.val, a.k) THEN Ret(r.w, "KeyNotFound")
  ELSE IF SEmpty(WithoutKey(r.val, a.k))
       THEN DeleteEntireSecret(r.w, Addr(a.p, "", 0), FALSE, FALSE)
  ELSE WriteSet(r.w, a.p, WithoutKey(r.val, a.k))

\* Vault.deleteSpecificKey: the latest secret is read, whatever the version
DeleteSpecificKey(w, a) == DeleteSpecificKeyRead(Read(w, Addr(a.p, "", 0)), a)

\* Vault.Delete, once canSemanticallyDelete returned
DeleteChecked(c, a, destroy, all) ==
  IF c.err # OK THEN c
  ELSE IF a.k = "" THEN DeleteEntireSecret(c.w, a, destroy, all)
  ELSE DeleteSpecificKey(c.w, a)

\* Vault.Delete, once verifySecretState returned
DeleteVerified(v, a, destroy, all) ==
  IF v.err # OK THEN v
  ELSE DeleteChecked(CanSemanticallyDelete(v.w, a), a, destroy, all)

\* Vault.Delete requiring state Alive whether or not destroy is set
DeleteRequiringAlive(w, a, destroy, all) ==
  DeleteVerified(VerifySecretState(w, a, all, verifyStateAlive), a, destroy, all)

\* Vault.Delete
Delete(w, a, destroy, all) ==
  DeleteVerified(
    VerifySecretState(w, a, all,
      IF destroy THEN verifyStateAliveOrDeleted ELSE verifyStateAlive),
    a, destroy, all)

\* deleteIfPresent, once Delete returned
DeleteIfPresentDeleted(d) ==
  IF IsKeyNotFound(d.err) THEN Ret(d.w, OK) ELSE d

\* deleteIfPresent, once the read returned
DeleteIfPresentRead(r, a, destroy, all) ==
  IF r.err # OK
  THEN IF IsSecretNotFound(r.err) THEN Ret(r.w, OK) ELSE Ret(r.w, r.err)
  ELSE DeleteIfPresentDeleted(Delete(r.w, a, destroy, all))

\* Vault.deleteIfPresent
DeleteIfPresent(w, a, destroy, all) ==
  DeleteIfPresentRead(Read(w, Addr(a.p, "", 0)), a, destroy, all)

\* Vault.Write
Write(w, a, d) ==
  IF a.k # "" THEN Ret(w, "WriteToKey")
  ELSE IF a.v # 0 THEN Ret(w, "WriteToVersion")
  ELSE IF SEmpty(d) THEN DeleteIfPresent(w, Addr(a.p, "", 0), FALSE, FALSE)
  ELSE WriteSet(w, a.p, d)

\* the target of Undelete taken to be the latest version always
UndeleteTargetLatest(m, a) == LastNum(m)

\* the version Undelete acts on: the explicit one, or the latest
UndeleteTarget(m, a) == IF a.v = 0 THEN LastNum(m) ELSE a.v

\* Vault.Undelete after the listing, without the test of the Destroyed flag
UndeleteVersionsNoDestroyedTest(vs, a) ==
  IF vs.err # OK THEN Ret(vs.w, vs.err)
  ELSE IF UndeleteTarget(vs.val, a) < vs.val.first THEN Ret(vs.w, "VersionDestroyed")
  ELSE IF UndeleteTarget(vs.val, a) - vs.val.first >= Len(vs.val.vers)
       THEN Ret(vs.w, "VersionNotYet")
  ELSE BUndelete(vs.w, a.p, {UndeleteTarget(vs.val, a)})

\* Vault.Undelete, once the versions were listed
UndeleteVersions(vs, a) ==
  IF vs.err # OK THEN Ret(vs.w, vs.err)
  ELSE IF UndeleteTarget(vs.val, a) < vs.val.first THEN Ret(vs.w, "VersionDestroyed")
  ELSE IF UndeleteTarget(vs.val, a) - vs.val.first >= Len(vs.val.vers)
       THEN Ret(vs.w, "VersionNotYet")
  ELSE IF VerAt(vs.val, UndeleteTarget(vs.val, a)).st = Destroyed
       THEN Ret(vs.w, "VersionDestroyed")
  ELSE BUndelete(vs.w, a.p, {UndeleteTarget(vs.val, a)})

\* Vault.Undelete
Undelete(w, a) ==
  IF a.k # "" THEN Ret(w, "UndeleteKey")
  ELSE UndeleteVersions(Versions(w, a.p), a)

\* the backend undelete of the --all handler returned: its result is
\* assigned to an err that the handler's return does not read
UndeleteAllCmdUndeleted(u) == Ret(u.w, OK)

\* the undelete command handler with --all, once the versions were listed
UndeleteAllCmdVersions(vs, a) ==
  IF vs.err # OK THEN Ret(vs.w, vs.err)
  ELSE UndeleteAllCmdUndeleted(BUndelete(vs.w, a.p, SeqToSet(VersionNumbers(vs.val))))

\* the undelete command handler with --all
UndeleteAllCmd(w, a) ==
  IF a.k # "" THEN Ret(w, "UndeleteKey")
  ELSE IF a.v > 0 THEN Ret(w, "AllWithVersion")
  ELSE UndeleteAllCmdVersions(Versions(w, a.p), a)

\* revert, once the target's data was written as the new latest version
RevertCmdWritten(wr, a, target, st) ==
  IF wr.err # OK THEN wr
  ELSE IF st = Deleted THEN Delete(wr.w, Addr(a.p, "", target), FALSE, FALSE)
  ELSE Ret(wr.w, OK)

\* revert, once the target version was read
RevertCmdRead(rd, a, target, st) ==
  IF rd.err # OK THEN Ret(rd.w, rd.err)
  ELSE RevertCmdWritten(Write(rd.w, Addr(a.p, "", 0), rd.val), a, target, st)

\* revert, once a Deleted target was undeleted
RevertCmdUndeleted(und, a, target, st, last) ==
  IF und.err # OK THEN und
  ELSE IF target = last THEN Ret(und.w, OK)
  ELSE RevertCmdRead(Read(und.w, Addr(a.p, "", target)), a, target, st)

\* revert, once the versions were listed
RevertCmdVersions(av, a, target, deleted) ==
  IF av.err # OK THEN Ret(av.w, av.err)
  ELSE IF target < av.val.first THEN Ret(av.w, "VersionDestroyed")
  ELSE IF target > LastNum(av.val) THEN Ret(av.w, "VersionNotExist")
  ELSE IF VerAt(av.val, target).st = Destroyed THEN Ret(av.w, "VersionDestroyed")
  ELSE IF VerAt(av.val, target).st = Deleted /\ ~deleted THEN Ret(av.w, "VersionDeleted")
  ELSE RevertCmdUndeleted(
         IF VerAt(av.val, target).st = Deleted
         THEN Undelete(av.w, Addr(a.p, "", target))
         ELSE Ret(av.w, OK),
         a, target, VerAt(av.val, target).st, LastNum(av.val))

\* the revert command handler; target is the VERSION argument, deleted the
\* --deleted flag
RevertCmd(w, a, target, deleted) ==
  IF a.k # "" THEN Ret(w, "RevertKey")
  ELSE IF a.v > 0 THEN Ret(w, "RevertVersion")
  ELSE IF target = 0 THEN Ret(w, OK)
  ELSE RevertCmdVersions(Versions(w, a.p), a, target, deleted)

(* ------------------------------ tree fetch ------------------------------ *)

PRoot == <<"a">>
QRoot == <<"b">>

\* every path of the model, in Secrets.Sort order
AllPathsSorted ==
  <<PRoot, <<"a", "x">>, <<"a", "y">>, <<"ab">>, <<"ab", "x">>, QRoot,
    <<"b", "x">>, <<"b", "y">>>>

AllPaths == SeqToSet(AllPathsSorted)

\* a fetched version: without data until a read supplies it
Bare(m, i) ==
  [num |-> m.first + i - 1, st |-> m.vers[i].st, has |-> FALSE, data |-> Empty]

WithData(m, i, d) == [Bare(m, i) EXCEPT !.has = TRUE, !.data = d]

RECURSIVE FetchVersions(_, _, _, _, _, _)

\* an Alive version was read
FetchVersionsRead(g, p, m, i, getDeleted, acc) ==
  IF g.err # OK THEN RetV(g.w, g.err, acc)
  ELSE FetchVersions(g.w, p, m, i + 1, getDeleted, Append(acc, WithData(m, i, g.val)))

\* a Deleted version was read and deleted again
FetchVersionsRedeleted(d, data, p, m, i, getDeleted, acc) ==
  IF d.err # OK THEN RetV(d.w, d.err, acc)
  ELSE FetchVersions(d.w, p, m, i + 1, getDeleted, Append(acc, WithData(m, i, data)))

\* a Deleted version was undeleted and read
FetchVersionsReadDeleted(g, p, m, i, getDeleted, acc) ==
  IF g.err # OK THEN RetV(g.w, g.err, acc)
  ELSE FetchVersionsRedeleted(BDelete(g.w, p, {m.first + i - 1}), g.val,
                              p, m, i, getDeleted, acc)

\* a Deleted version was undeleted
FetchVersionsUndeleted(u, p, m, i, getDeleted, acc) ==
  IF u.err # OK THEN RetV(u.w, u.err, acc)
  ELSE FetchVersionsReadDeleted(Read(u.w, Addr(p, "", m.first + i - 1)),
                                p, m, i, getDeleted, acc)

\* the versions of one SecretEntry, from retained record i on: an Alive
\* version is read; a Deleted one is undeleted, read and deleted again when
\* getDeleted is set; any other version comes without data
FetchVersions(w, p, m, i, getDeleted, acc) ==
  IF i > Len(m.vers) THEN RetV(w, OK, acc)
  ELSE IF m.vers[i].st = Alive
       THEN FetchVersionsRead(Read(w, Addr(p, "", m.first + i - 1)),
                              p, m, i, getDeleted, acc)
  ELSE IF m.vers[i].st = Deleted /\ getDeleted
       THEN FetchVersionsUndeleted(BUndelete(w, p, {m.first + i - 1}),
                                   p, m, i, getDeleted, acc)
  ELSE FetchVersions(w, p, m, i + 1, getDeleted, Append(acc, Bare(m, i)))

\* ConstructSecrets with GetOnly, the latest version alone, once it was read
ConstructSecretsGetOnlyRead(g, m) ==
  IF g.err # OK THEN RetV(g.w, g.err, <<>>)
  ELSE RetV(g.w, OK, <<[num |-> LastNum(m), st |-> Alive, has |-> TRUE,
                        data |-> g.val]>>)

\* ConstructSecrets with GetOnly, once the versions were listed
ConstructSecretsGetOnlyVersions(vs, p, fetchAll, getDeleted) ==
  IF vs.err # OK THEN RetV(vs.w, vs.err, <<>>)
  ELSE IF fetchAll THEN FetchVersions(vs.w, p, vs.val, 1, getDeleted, <<>>)
  ELSE ConstructSecretsGetOnlyRead(Read(vs.w, Addr(p, "", 0)), vs.val)

\* Vault.ConstructSecrets with GetOnly and FetchKeys: the one entry at p,
\* its latest version alone unless fetchAll is set
ConstructSecretsGetOnly(w, p, fetchAll, getDeleted) ==
  ConstructSecretsGetOnlyVersions(Versions(w, p), p, fetchAll, getDeleted)

RECURSIVE FilterReadable(_, _, _, _)

\* the leaf ps[i] was read
FilterReadableRead(g, ps, i, acc) ==
  IF g.err = OK THEN FilterReadable(g.w, ps, i + 1, Append(acc, ps[i]))
  ELSE IF IsNotFound(g.err) THEN FilterReadable(g.w, ps, i + 1, acc)
  ELSE RetV(g.w, g.err, acc)

\* the leaves among ps[i..] that a read finds
FilterReadable(w, ps, i, acc) ==
  IF i > Len(ps) THEN RetV(w, OK, acc)
  ELSE FilterReadableRead(Read(w, Addr(ps[i], "", 0)), ps, i, acc)

\* the sorted paths beneath root that hold a secret
Below(w, root) ==
  SelectSeq(AllPathsSorted, LAMBDA q : IsBelow(q, root) /\ HasMeta(Meta(w, q)))

\* ConstructSecrets, once root was listed
ConstructSecretsListed(l, root, allowDeleted) ==
  IF l.err # OK THEN RetV(l.w, l.err, <<>>)
  ELSE IF allowDeleted THEN RetV(l.w, OK, Below(l.w, root))
  ELSE FilterReadable(l.w, Below(l.w, root), 1, <<>>)

\* Vault.ConstructSecrets without FetchKeys and with SkipVersionInfo: the
\* sorted paths of the leaves beneath root; a leaf that reads as not found
\* is listed only when allowDeleted is set
ConstructSecrets(w, root, allowDeleted) ==
  ConstructSecretsListed(List(w, root), root, allowDeleted)

RECURSIVE PadVersions(_, _, _, _)

\* a placeholder was written for number n
PadVersionsSet(r, dst, n, upto) ==
  IF r.err # OK THEN r ELSE PadVersions(r.w, dst, n + 1, upto)

\* SecretEntry.Copy with Pad: placeholders for the numbers n..upto
PadVersions(w, dst, n, upto) ==
  IF n > upto THEN Ret(w, OK)
  ELSE PadVersionsSet(BSet(w, dst, Placeholder), dst, n, upto)

RECURSIVE ReplayVersions(_, _, _, _, _, _)

\* versions[i] was written: a version without data is to be destroyed at
\* the number it got, a Deleted one to be deleted
ReplayVersionsSet(r, dst, versions, i, toDelete, toDestroy) ==
  IF r.err # OK THEN RetV(r.w, r.err, [del |-> toDelete, des |-> toDestroy])
  ELSE IF ~versions[i].has
       THEN ReplayVersions(r.w, dst, versions, i + 1, toDelete,
                           toDestroy \cup {LastNum(Meta(r.w, dst))})
  ELSE IF versions[i].st = Deleted
       THEN ReplayVersions(r.w, dst, versions, i + 1,
                           toDelete \cup {LastNum(Meta(r.w, dst))}, toDestroy)
  ELSE ReplayVersions(r.w, dst, versions, i + 1, toDelete, toDestroy)

\* SecretEntry.Copy: write versions[i..] in order; val = the destination
\* numbers to delete and to destroy afterwards
ReplayVersions(w, dst, versions, i, toDelete, toDestroy) ==
  IF i > Len(versions) THEN RetV(w, OK, [del |-> toDelete, des |-> toDestroy])
  ELSE ReplayVersionsSet(
         BSet(w, dst, IF versions[i].has THEN versions[i].data ELSE Placeholder),
         dst, versions, i, toDelete, toDestroy)

\* SecretEntry.Copy, once the Deleted versions were deleted again
EntryCopyDeleted(dl, dst, des) ==
  IF dl.err # OK THEN dl
  ELSE IF des # {} THEN BDestroy(dl.w, dst, des)
  ELSE Ret(dl.w, OK)

\* SecretEntry.Copy, once the versions were written
EntryCopyReplayed(rp, dst) ==
  IF rp.err # OK THEN Ret(rp.w, rp.err)
  ELSE EntryCopyDeleted(
         IF rp.val.del # {} THEN BDelete(rp.w, dst, rp.val.del) ELSE Ret(rp.w, OK),
         dst, rp.val.des)

\* SecretEntry.Copy, once the numbers below the oldest version were padded
EntryCopyPadded(pd, versions, dst, pad) ==
  IF pd.err # OK THEN pd
  ELSE EntryCopyReplayed(
         ReplayVersions(pd.w, dst, versions, 1, {},
                        IF pad THEN 1..(versions[1].num - 1) ELSE {}),
         dst)

\* SecretEntry.Copy, once the destination was cleared
EntryCopyCleared(c, versions, dst, pad) ==
  IF c.err # OK THEN c
  ELSE EntryCopyPadded(
         IF pad THEN PadVersions(c.w, dst, 1, versions[1].num - 1) ELSE Ret(c.w, OK),
         versions, dst, pad)

\* SecretEntry.Copy
EntryCopy(w, versions, dst, clear, pad) ==
  EntryCopyCleared(IF clear THEN BDestroyAll(w, dst) ELSE Ret(w, OK),
                   versions, dst, pad)

(* --------------------------- copy, move --------------------------------- *)

\* MoveCopyOpts
Opts(skip, deep, delv, quiet) ==
  [skip |-> skip, deep |-> deep, delv |-> delv, quiet |-> quiet]

\* the versions Vault.Copy hands on: the one the source address names, if
\* it was fetched, else all that were fetched
PickVersion(versions, v) ==
  IF v # 0 /\ \E i \in 1..Len(versions) : versions[i].num = v
  THEN SelectSeq(versions, LAMBDA ver : ver.num = v)
  ELSE versions

\* Vault.Copy, whole-secret branch, with Pad left unset
CopyWholeSecretFetchedNoPad(t, src, dst, o) ==
  IF t.err # OK THEN Ret(t.w, t.err)
  ELSE IF Len(t.val) = 0 THEN Ret(t.w, "SecretNotFound")
  ELSE EntryCopy(t.w, PickVersion(t.val, src.v), dst.p, o.deep, FALSE)

\* Vault.Copy, whole-secret branch, once the source entry was fetched
CopyWholeSecretFetched(t, src, dst, o) ==
  IF t.err # OK THEN Ret(t.w, t.err)
  ELSE IF Len(t.val) = 0 THEN Ret(t.w, "SecretNotFound")
  ELSE EntryCopy(t.w, PickVersion(t.val, src.v), dst.p, o.deep, o.deep)

\* Vault.Copy, whole-secret branch after the destination-key test
CopyWholeSecret(w, src, dst, o) ==
  CopyWholeSecretFetched(
    ConstructSecretsGetOnly(w, src.p, o.deep \/ src.v # 0, o.deep /\ o.delv),
    src, dst, o)

\* Vault.Copy, single-key branch, writing the copied key alone
CopyKeyDstReadFresh(d, val, dstKey, dst) ==
  IF d.err # OK /\ ~IsSecretNotFound(d.err) THEN Ret(d.w, d.err)
  ELSE Write(d.w, Addr(dst.p, "", 0), [Empty EXCEPT ![dstKey] = val])

\* Vault.Copy, single-key branch, once the destination was read
CopyKeyDstRead(d, val, dstKey, dst) ==
  IF d.err # OK /\ ~IsSecretNotFound(d.err) THEN Ret(d.w, d.err)
  ELSE Write(d.w, Addr(dst.p, "", 0),
             [(IF IsSecretNotFound(d.err) THEN Empty ELSE d.val)
                EXCEPT ![dstKey] = val])

\* Vault.Copy, single-key branch, once the source key was read
CopyKeyRead(s, src, dst) ==
  IF s.err # OK THEN Ret(s.w, s.err)
  ELSE IF ~SHas(s.val, src.k) THEN Ret(s.w, "KeyNotFound")
  ELSE CopyKeyDstRead(Read(s.w, Addr(dst.p, "", 0)), s.val[src.k],
                      IF dst.k = "" THEN src.k ELSE dst.k, dst)

\* Vault.Copy, single-key branch
CopyKey(w, src, dst, o) ==
  IF o.deep THEN Ret(w, "DeepCopyOfKey")
  ELSE CopyKeyRead(Read(w, src), src, dst)

\* Vault.Copy after the skipIfExists test
CopyBody(w, src, dst, o) ==
  IF dst.v # 0 THEN Ret(w, "CopyToVersion")
  ELSE IF o.deep /\ src.v # 0 THEN Ret(w, "DeepCopyOfVersion")
  ELSE IF src.k # "" THEN CopyKey(w, src, dst, o)
  ELSE IF dst.k # "" THEN Ret(w, "SecretIntoKey")
  ELSE CopyWholeSecret(w, src, dst, o)

\* Vault.Copy with skipIfExists, once the destination was read
CopySkipRead(e, src, dst, o) ==
  IF e.err = OK THEN Ret(e.w, OK)
  ELSE IF ~IsNotFound(e.err) THEN Ret(e.w, e.err)
  ELSE CopyBody(e.w, src, dst, o)

\* Vault.Copy, once verifySecretState returned
CopyVerified(v, src, dst, o) ==
  IF v.err # OK THEN v
  ELSE IF o.skip THEN CopySkipRead(Read(v.w, dst), src, dst, o)
  ELSE CopyBody(v.w, src, dst, o)

\* Vault.Copy
Copy(w, src, dst, o) ==
  IF o.delv /\ ~o.deep THEN Ret(w, "Panic")
  ELSE CopyVerified(
         VerifySecretState(w, src, o.deep,
           IF o.delv THEN verifyStateAliveOrDeleted ELSE verifyStateAlive),
         src, dst, o)

\* Vault.Move with Deep and DeletedVersions, once DestroyAll returned: its
\* error is assigned and nil is returned
MoveDestroyedAll(r) == Ret(r.w, OK)

\* Vault.Move, once Copy returned
MoveCopied(c, src, o) ==
  IF c.err # OK THEN c
  ELSE IF o.deep /\ o.delv THEN MoveDestroyedAll(BDestroyAll(c.w, src.p))
  ELSE Delete(c.w, src, FALSE, FALSE)

\* Vault.Move, once canSemanticallyDelete returned
MoveChecked(g, src, dst, o) ==
  IF g.err # OK THEN Ret(g.w, "CantMove")
  ELSE MoveCopied(Copy(g.w, src, dst, o), src, o)

\* Vault.Move
Move(w, src, dst, o) == MoveChecked(CanSemanticallyDelete(w, src), src, dst, o)

\* op returned: the invocation and its result are recorded
ApplyOpDone(r, src, dst) ==
  Ret([r.w EXCEPT !.ops = Append(@, [src |-> src, dst |-> dst, err |-> r.err])],
      r.err)

\* the op handed to MoveCopyTree, applied to one pair of paths
ApplyOp(f, w, src, dst, o) ==
  ApplyOpDone(IF f = "move" THEN Move(w, Addr(src, "", 0), Addr(dst, "", 0), o)
              ELSE Copy(w, Addr(src, "", 0), Addr(dst, "", 0), o),
              src, dst)

\* strings.Replace(path, oldRoot, newRoot, 1) on a path that begins with oldRoot
ReplaceRoot(path, oldRoot, newRoot) ==
  newRoot \o SubSeq(path, Len(oldRoot) + 1, Len(path))

RECURSIVE ApplyToLeaves(_, _, _, _, _, _, _)

\* the loop of MoveCopyTree going on to the next leaf after an error
ApplyToLeavesDoneKeepGoing(r, f, paths, i, oldRoot, newRoot, o) ==
  IF r.err # OK
  THEN Ret(ApplyToLeaves(f, r.w, paths, i + 1, oldRoot, newRoot, o).w, r.err)
  ELSE ApplyToLeaves(f, r.w, paths, i + 1, oldRoot, newRoot, o)

\* the loop of MoveCopyTree, once op returned for leaf i
ApplyToLeavesDone(r, f, paths, i, oldRoot, newRoot, o) ==
  IF r.err # OK THEN r
  ELSE ApplyToLeaves(f, r.w, paths, i + 1, oldRoot, newRoot, o)

\* the loop of MoveCopyTree over tree.Paths()[i..]
ApplyToLeaves(f, w, paths, i, oldRoot, newRoot, o) ==
  IF i > Len(paths) THEN Ret(w, OK)
  ELSE ApplyToLeavesDone(
         ApplyOp(f, w, paths[i], ReplaceRoot(paths[i], oldRoot, newRoot), o),
         f, paths, i, oldRoot, newRoot, o)

\* MoveCopyTree finding no destination path in the way
ExistingPathsNone(treePaths, newTreePaths, oldRoot, newRoot) == {}

\* the existingPaths of MoveCopyTree: the destinations of the source leaves
\* that the listing of newRoot holds
ExistingPaths(treePaths, newTreePaths, oldRoot, newRoot) ==
  {ReplaceRoot(treePaths[i], oldRoot, newRoot) : i \in 1..Len(treePaths)}
    \cap SeqToSet(newTreePaths)

\* MoveCopyTree, once op returned for oldRoot
MoveCopyTreeRootDone(r) == RetV(r.w, r.err, {})

\* MoveCopyTree, once oldRoot was read
MoveCopyTreeRootRead(rd, oldRoot, newRoot, f, o) ==
  IF ~IsNotFound(rd.err)
  THEN MoveCopyTreeRootDone(ApplyOp(f, rd.w, oldRoot, newRoot, o))
  ELSE RetV(rd.w, OK, {})

\* MoveCopyTree, once the loop over the leaves ended
MoveCopyTreeLeaves(lv, oldRoot, newRoot, f, o) ==
  IF lv.err # OK THEN RetV(lv.w, lv.err, {})
  ELSE MoveCopyTreeRootRead(Read(lv.w, Addr(oldRoot, "", 0)), oldRoot, newRoot, f, o)

\* MoveCopyTree, once newRoot was listed (skipIfExists); val = the
\* colliding paths it printed
MoveCopyTreeNewListed(newTree, paths, oldRoot, newRoot, f, o) ==
  IF o.skip /\ newTree.err # OK /\ ~IsNotFound(newTree.err)
  THEN RetV(newTree.w, newTree.err, {})
  ELSE IF o.skip /\ ExistingPaths(paths, IF newTree.err = OK THEN newTree.val ELSE <<>>,
                                  oldRoot, newRoot) # {}
  THEN RetV(newTree.w, OK,
            IF o.quiet THEN {}
            ELSE ExistingPaths(paths, IF newTree.err = OK THEN newTree.val ELSE <<>>,
                               oldRoot, newRoot))
  ELSE MoveCopyTreeLeaves(ApplyToLeaves(f, newTree.w, paths, 1, oldRoot, newRoot, o),
                          oldRoot, newRoot, f, o)

\* MoveCopyTree, once oldRoot was listed
MoveCopyTreeListed(tree, oldRoot, newRoot, f, o) ==
  IF tree.err # OK THEN RetV(tree.w, tree.err, {})
  ELSE MoveCopyTreeNewListed(
         IF o.skip THEN ConstructSecrets(tree.w, newRoot, ~o.deep)
         ELSE RetV(tree.w, OK, <<>>),
         tree.val, oldRoot, newRoot, f, o)

\* Vault.MoveCopyTree
MoveCopyTree(w, oldRoot, newRoot, f, o) ==
  MoveCopyTreeListed(ConstructSecrets(w, oldRoot, o.deep), oldRoot, newRoot, f, o)

(* ------------------------------ delete tree ----------------------------- *)

\* a mount is named by the path it is mounted at, the empty path for a
\* mount that holds every path; a segment "" stands for a slash at an end
\* of the string
IsMountOf(m, p) == Len(m) <= Len(p) /\ SubSeq(p, 1, Len(m)) = m

\* vaultkv.Client.MountPath: the path of the mount that holds p, with its
\* trailing slash
BMountPath(w, p) ==
  IF Fails(w) THEN RetV(Tick(w), "Transport", <<>>)
  ELSE IF \E m \in w.mounts : IsMountOf(m, p)
       THEN RetV(Tick(w), OK, (CHOOSE m \in w.mounts : IsMountOf(m, p)) \o <<"">>)
  ELSE RetV(Tick(w), "NoMount", <<>>)

RECURSIVE TrimLeft(_)
TrimLeft(p) == IF Len(p) > 0 /\ Head(p) = "" THEN TrimLeft(Tail(p)) ELSE p

RECURSIVE TrimRight(_)
TrimRight(p) ==
  IF Len(p) > 0 /\ p[Len(p)] = "" THEN TrimRight(SubSeq(p, 1, Len(p) - 1)) ELSE p

\* strings.Trim(s, "/")
TrimSlashes(p) == TrimRight(TrimLeft(p))

\* deleteEntireSecret on the node at path p, the invocation recorded
DeleteNode(w, p, destroy, all) ==
  ApplyOpDone(DeleteEntireSecret(w, Addr(p, "", 0), destroy, all), p, p)

RECURSIVE DeleteLeaves(_, _, _, _, _)

\* the loop of DeleteTree going on to the next leaf after an error
DeleteLeavesDoneKeepGoing(r, paths, i, destroy, all) ==
  IF r.err # OK
  THEN Ret(DeleteLeaves(r.w, paths, i + 1, destroy, all).w, r.err)
  ELSE DeleteLeaves(r.w, paths, i + 1, destroy, all)

\* the loop of DeleteTree, once leaf i was deleted
DeleteLeavesDone(r, paths, i, destroy, all) ==
  IF r.err # OK THEN r
  ELSE DeleteLeaves(r.w, paths, i + 1, destroy, all)

\* the loop of DeleteTree over secrets.Paths()[i..]
DeleteLeaves(w, paths, i, destroy, all) ==
  IF i > Len(paths) THEN Ret(w, OK)
  ELSE DeleteLeavesDone(DeleteNode(w, paths[i], destroy, all), paths, i, destroy, all)

\* DeleteTree, once the mount of root is known
DeleteTreeMount(mp, root, destroy, all) ==
  IF mp.err # OK THEN Ret(mp.w, mp.err)
  ELSE IF TrimSlashes(root) # TrimSlashes(mp.val)
       THEN DeleteNode(mp.w, root, destroy, all)
  ELSE Ret(mp.w, OK)

\* DeleteTree, once the loop over the leaves ended
DeleteTreeLeaves(lv, root, destroy, all) ==
  IF lv.err # OK THEN lv
  ELSE DeleteTreeMount(BMountPath(lv.w, root), root, destroy, all)

\* DeleteTree, once root was listed
DeleteTreeListed(s, root, destroy, all) ==
  IF s.err # OK THEN Ret(s.w, s.err)
  ELSE DeleteTreeLeaves(DeleteLeaves(s.w, s.val, 1, destroy, all), root, destroy, all)

\* Vault.DeleteTree
DeleteTree(w, root, destroy, all) ==
  DeleteTreeListed(ConstructSecrets(w, root, TRUE), root, destroy, all)

(* ------------------------------- export -------------------------------- *)

\* the characters of one path segment; every segment of the model but ab
\* is one character long
SegChars(seg) == IF seg = "ab" THEN <<"a", "b">> ELSE <<seg>>

RECURSIVE PathString(_)

\* the canonical string of a path, its segments joined by "/"
PathString(p) ==
  IF Len(p) = 0 THEN <<>>
  ELSE IF Len(p) = 1 THEN SegChars(p[1])
  ELSE SegChars(p[1]) \o <<"/">> \o PathString(Tail(p))

\* strings.HasPrefix
HasPrefix(s, prefix) ==
  Len(prefix) <= Len(s) /\ SubSeq(s, 1, Len(prefix)) = prefix

\* the place of a path in Secrets.Sort order
PathIndex(p) == CHOOSE i \in 1..Len(AllPathsSorted) : AllPathsSorted[i] = p

\* vault.PathLessThan: segment by segment, a path before the paths beneath
\* it; true of a path without a trailing slash and itself
PathLessThan(p, q) == PathIndex(p) <= PathIndex(q)

RECURSIVE InsertPath(_, _)
InsertPath(p, s) ==
  IF s = <<>> \/ ~PathLessThan(s[1], p) THEN <<p>> \o s
  ELSE <<s[1]>> \o InsertPath(p, Tail(s))

RECURSIVE SortPaths(_)

\* sort.Slice(args, PathLessThan)
SortPaths(ps) ==
  IF Len(ps) <= 1 THEN ps ELSE InsertPath(ps[1], SortPaths(Tail(ps)))

\* args without its element i
DropAt(args, i) == SubSeq(args, 1, i - 1) \o SubSeq(args, i + 1, Len(args))

RECURSIVE DedupeArgs(_, _)

\* the deduplication loop of export: an argument that has its predecessor as
\* a string prefix is dropped
DedupeArgs(args, i) ==
  IF i >= Len(args) THEN args
  ELSE IF HasPrefix(PathString(TrimSlashes(args[i + 1])),
                    PathString(TrimSlashes(args[i])))
       THEN DedupeArgs(DropAt(args, i + 1), i)
  ELSE DedupeArgs(args, i + 1)

RECURSIVE FetchEntries(_, _, _, _, _, _)

\* the versions of the leaf paths[i] were fetched
FetchEntriesFetched(f, paths, i, fetchAll, getDeleted, acc) ==
  IF f.err # OK THEN RetV(f.w, f.err, acc)
  ELSE FetchEntries(f.w, paths, i + 1, fetchAll, getDeleted,
                    Append(acc, [path |-> paths[i], versions |-> f.val]))

\* the versions of the leaf paths[i] were listed
FetchEntriesVersions(vs, paths, i, fetchAll, getDeleted, acc) ==
  IF vs.err # OK THEN RetV(vs.w, vs.err, acc)
  ELSE FetchEntriesFetched(
         FetchVersions(vs.w, paths[i], vs.val,
                       IF fetchAll THEN 1 ELSE Len(vs.val.vers), getDeleted, <<>>),
         paths, i, fetchAll, getDeleted, acc)

\* one SecretEntry for each of paths[i..]: every retained version when
\* fetchAll is set, the latest one alone otherwise
FetchEntries(w, paths, i, fetchAll, getDeleted, acc) ==
  IF i > Len(paths) THEN RetV(w, OK, acc)
  ELSE FetchEntriesVersions(Versions(w, paths[i]), paths, i, fetchAll,
                            getDeleted, acc)

\* ConstructSecrets with FetchKeys, once the leaves were listed
ConstructSecretsKeysListed(l, fetchAll, getDeleted) ==
  IF l.err # OK THEN RetV(l.w, l.err, <<>>)
  ELSE FetchEntries(l.w, l.val, 1, fetchAll, getDeleted, <<>>)

\* Vault.ConstructSecrets with FetchKeys: the entries beneath root, sorted
ConstructSecretsKeys(w, root, fetchAll, getDeleted, allowDeleted) ==
  ConstructSecretsKeysListed(ConstructSecrets(w, root, allowDeleted),
                             fetchAll, getDeleted)

\* the paths of a list of entries
PathsOf(secrets) == {secrets[i].path : i \in 1..Len(secrets)}

EntryAt(secrets, p) ==
  secrets[CHOOSE i \in 1..Len(secrets) : secrets[i].path = p]

\* the sorted paths of two lists of entries
MergedPaths(a, b) ==
  SelectSeq(AllPathsSorted, LAMBDA q : q \in PathsOf(a) \cup PathsOf(b))

\* Secrets.Merge: the entries of both lists, sorted, an entry of the
\* receiver before one of the argument with the same path
MergeSecrets(a, b) ==
  [i \in 1..Len(MergedPaths(a, b)) |->
     IF MergedPaths(a, b)[i] \in PathsOf(a) THEN EntryAt(a, MergedPaths(a, b)[i])
     ELSE EntryAt(b, MergedPaths(a, b)[i])]

RECURSIVE ExportFetch(_, _, _, _, _, _)

\* the tree beneath args[i] was fetched
ExportFetched(t, args, i, all, deleted, secrets) ==
  IF t.err # OK THEN RetV(t.w, t.err, <<>>)
  ELSE ExportFetch(t.w, args, i + 1, all, deleted, MergeSecrets(secrets, t.val))

\* the loop of export over its deduplicated arguments
ExportFetch(w, args, i, all, deleted, secrets) ==
  IF i > Len(args) THEN RetV(w, OK, secrets)
  ELSE ExportFetched(ConstructSecretsKeys(w, args[i], all, deleted, deleted),
                     args, i, all, deleted, secrets)

\* mustV2Export
MustV2Export(secrets) ==
  \E i \in 1..Len(secrets) : Len(secrets[i].versions) > 1

\* the legacy document: a JSON object from path to the data of the one
\* fetched version
V1Export(secrets) ==
  [json |-> "object",
   data |-> [p \in PathsOf(secrets) |-> EntryAt(secrets, p).versions[1].data]]

\* a uint field tagged omitempty: absent from the JSON when it is 0
OmitEmpty(n) == IF n = 0 THEN {} ELSE {n}

\* exportVersion
ExportVersionOf(version, deleted) ==
  [deleted   |-> version.st = Deleted /\ deleted,
   destroyed |-> version.st = Destroyed \/ (version.st = Deleted /\ ~deleted),
   value     |-> version.data]

\* the first version exportSecret states, 0 when it is to be omitted
FirstVersion(versions, shallow) ==
  IF versions[1].num = 1 \/ shallow THEN 0 ELSE versions[1].num

\* exportSecret
ExportSecret(versions, shallow, deleted) ==
  [first    |-> OmitEmpty(FirstVersion(versions, shallow)),
   versions |-> [i \in 1..Len(versions) |-> ExportVersionOf(versions[i], deleted)]]

RECURSIVE V2ExportMounts(_, _, _, _)

\* the mount of secrets[i] was looked up: its error is dropped, and the
\* mount is then the empty string
V2ExportMounted(mp, secrets, i, rv) ==
  V2ExportMounts(mp.w, secrets, i + 1, rv \cup {mp.val})

\* the mounts v2Export flags in RequiresVersioning, from secrets[i] on
V2ExportMounts(w, secrets, i, rv) ==
  IF i > Len(secrets) THEN RetV(w, OK, rv)
  ELSE IF Len(secrets[i].versions) > 1
       THEN V2ExportMounted(BMountPath(w, secrets[i].path), secrets, i, rv)
  ELSE V2ExportMounts(w, secrets, i + 1, rv)

\* the versioned document: a JSON array of the one exportFormat
V2ExportDoc(secrets, rv, shallow, deleted) ==
  [json  |-> "array",
   elems |-> <<[json |-> "object", export_version |-> [json |-> "number", n |-> 2],
                data |-> [p \in PathsOf(secrets) |->
                            ExportSecret(EntryAt(secrets, p).versions, shallow, deleted)],
                requires_versioning |-> rv]>>]

\* v2Export, once the mounts were looked up
V2ExportFlagged(m, secrets, shallow, deleted) ==
  RetV(m.w, OK, {V2ExportDoc(secrets, m.val, shallow, deleted)})

\* export, once every argument was fetched; val = the documents printed
ExportCmdFetched(f, shallow, deleted) ==
  IF f.err # OK THEN RetV(f.w, f.err, {})
  ELSE IF MustV2Export(f.val)
       THEN V2ExportFlagged(V2ExportMounts(f.w, f.val, 1, {}), f.val, shallow, deleted)
  ELSE RetV(f.w, OK, {V1Export(f.val)})

\* the paths of the arguments of export
ArgPaths(args) == [i \in 1..Len(args) |-> args[i].p]

RECURSIVE ExportArgsError(_, _)

\* the validation loop of export: the error of the first argument that
\* carries a key or a version
ExportArgsError(args, i) ==
  IF i > Len(args) THEN OK
  ELSE IF args[i].k # "" THEN "ExportPathWithKey"
  ELSE IF args[i].v > 0 THEN "ExportPathWithVersion"
  ELSE ExportArgsError(args, i + 1)

\* the export command
ExportCmd(w, args, all, deleted, shallow) ==
  IF ExportArgsError(args, 1) # OK THEN RetV(w, ExportArgsError(args, 1), {})
  ELSE ExportCmdFetched(
         ExportFetch(w, DedupeArgs(SortPaths(ArgPaths(args)), 1), 1, all, deleted, <<>>),
         shallow, deleted)

(* ------------------------------- import -------------------------------- *)

\* JSON values: an object, an array, a number, a string and null carry the
\* tag json; "invalid" stands for input that is not JSON
JNum(n) == [json |-> "number", n |-> n]

JStr(s) == [json |-> "string", s |-> s]

\* the orders in which a range loop may visit the keys S of a Go map
Orders(S) ==
  {o \in [1..Cardinality(S) -> S] :
     \A i, j \in 1..Cardinality(S) : o[i] = o[j] => i = j}

\* a JSON value that unmarshals into a *vault.Secret: an object from key to
\* string
IsSecretJSON(v) == DOMAIN v = Keys

RECURSIVE V1ImportWrite(_, _, _, _)

\* v1Import, once the secret at order[i] was written
V1ImportWritten(r, data, order, i) ==
  IF r.err # OK THEN r ELSE V1ImportWrite(r.w, data, order, i + 1)

\* the loop of v1Import, visiting the paths in the given order
V1ImportWrite(w, data, order, i) ==
  IF i > Len(order) THEN Ret(w, OK)
  ELSE V1ImportWritten(Write(w, Addr(order[i], "", 0), data[order[i]]),
                       data, order, i)

\* v1Import
V1Import(w, doc, order) ==
  IF \E p \in DOMAIN doc.data : ~IsSecretJSON(doc.data[p])
  THEN Ret(w, "Unmarshal")
  ELSE V1ImportWrite(w, doc.data, order, 1)

RECURSIVE V2ImportMounts(_, _, _)

\* the check of v2Import ending with the first mount that passes
V2ImportMountCheckedFirstOnly(mv, morder, i) ==
  IF mv.err # OK THEN Ret(mv.w, "MountVersionUnknown")
  ELSE IF mv.val # 2 THEN Ret(mv.w, "MountNotVersioned")
  ELSE Ret(mv.w, OK)

\* the version of the mount morder[i] is known
V2ImportMountChecked(mv, morder, i) ==
  IF mv.err # OK THEN Ret(mv.w, "MountVersionUnknown")
  ELSE IF mv.val # 2 THEN Ret(mv.w, "MountNotVersioned")
  ELSE V2ImportMounts(mv.w, morder, i + 1)

\* the check of v2Import on the mounts flagged in requires_versioning
V2ImportMounts(w, morder, i) ==
  IF i > Len(morder) THEN Ret(w, OK)
  ELSE V2ImportMountChecked(BMountVersion(w, morder[i]), morder, i)

\* the state v2Import gives an exported version
ImportState(ev) ==
  IF ev.destroyed THEN Destroyed ELSE IF ev.deleted THEN Deleted ELSE Alive

\* an exported version that the options make v2Import skip
ImportSkips(ev, igdel, igdes) ==
  \/ ev.destroyed /\ igdes
  \/ ~ev.destroyed /\ ev.deleted /\ igdel

\* the versions v2Import takes from the list: the last one alone when
\* shallow is set
ImportTaken(evs, shallow) ==
  IF shallow THEN SubSeq(evs, Len(evs), Len(evs)) ELSE evs

\* the places in evs of the versions that are not skipped
ImportKept(evs, igdel, igdes) ==
  SelectSeq([i \in 1..Len(evs) |-> i],
            LAMBDA i : ~ImportSkips(evs[i], igdel, igdes))

\* firstVersion: 1 when the JSON states none
ImportFirst(secret) ==
  IF secret.first = {} \/ secret.first = {0} THEN 1
  ELSE CHOOSE n \in secret.first : TRUE

\* the SecretVersions built from evs, numbered by their place
ImportBuilt(evs, first, igdel, igdes) ==
  [j \in 1..Len(ImportKept(evs, igdel, igdes)) |->
     [num  |-> first + ImportKept(evs, igdel, igdes)[j] - 1,
      st   |-> ImportState(evs[ImportKept(evs, igdel, igdes)[j]]),
      has  |-> ImportState(evs[ImportKept(evs, igdel, igdes)[j]]) # Destroyed,
      data |-> evs[ImportKept(evs, igdel, igdes)[j]].value]]

\* the SecretEntry v2Import builds from an exportSecret
ImportVersions(secret, shallow, igdel, igdes) ==
  ImportBuilt(ImportTaken(secret.versions, shallow), ImportFirst(secret),
              igdel, igdes)

RECURSIVE V2ImportCopy(_, _, _, _, _, _, _)

\* v2Import, once the entry at order[i] was copied
V2ImportCopied(r, data, order, i, shallow, igdel, igdes) ==
  IF r.err # OK THEN r
  ELSE V2ImportCopy(r.w, data, order, i + 1, shallow, igdel, igdes)

\* the loop of v2Import, visiting the paths in the given order
V2ImportCopy(w, data, order, i, shallow, igdel, igdes) ==
  IF i > Len(order) THEN Ret(w, OK)
  ELSE V2ImportCopied(
         EntryCopy(w, ImportVersions(data[order[i]], shallow, igdel, igdes),
                   order[i], TRUE, ~(igdes \/ shallow)),
         data, order, i, shallow, igdel, igdes)

\* v2Import, once the flagged mounts were checked
V2ImportChecked(c, data, order, shallow, igdel, igdes) ==
  IF c.err # OK THEN c
  ELSE V2ImportCopy(c.w, data, order, 1, shallow, igdel, igdes)

\* v2Import
V2Import(w, doc, order, morder, shallow, igdel, igdes) ==
  IF Len(doc.elems) # 1 THEN Ret(w, "ImproperlyFormatted")
  ELSE V2ImportChecked(
         IF shallow THEN Ret(w, OK) ELSE V2ImportMounts(w, morder, 1),
         doc.elems[1].data, order, shallow, igdel, igdes)

\* the type switch of import taking a one-element array of an object for
\* the envelope, whatever version it declares
ImportFormatAnyVersion(doc) ==
  IF doc.json = "object" THEN "v1"
  ELSE IF /\ doc.json = "array"
          /\ Len(doc.elems) = 1
          /\ doc.elems[1].json = "object"
       THEN "v2"
  ELSE "none"

\* the format the type switch of import finds: "v1", "v2" or "none"
ImportFormat(doc) ==
  IF doc.json = "object" THEN "v1"
  ELSE IF /\ doc.json = "array"
          /\ Len(doc.elems) = 1
          /\ doc.elems[1].json = "object"
          /\ "export_version" \in DOMAIN doc.elems[1]
          /\ doc.elems[1].export_version.json = "number"
          /\ doc.elems[1].export_version.n = 2
       THEN "v2"
  ELSE "none"

\* the import command reading doc from its input
ImportCmd(w, doc, order, morder, shallow, igdel, igdes, skipIfExists) ==
  IF skipIfExists THEN Ret(w, "Usage")
  ELSE IF ImportFormat(doc) = "v1" THEN V1Import(w, doc, order)
  ELSE IF ImportFormat(doc) = "v2"
       THEN V2Import(w, doc, order, morder, shallow, igdel, igdes)
  ELSE Ret(w, "UnknownFormat")

(* ---------------------------- address codec --------------------------- *)

\* a string is the sequence of its characters

\* the characters that delimit the key and the version of an address
Delimiters == {":", "^"}

RECURSIVE EscapePathSegment(_)

\* vault.EscapePathSegment: a backslash before every ':' and '^'
EscapePathSegment(s) ==
  IF s = <<>> THEN <<>>
  ELSE (IF Head(s) \in Delimiters THEN <<"\\", Head(s)>> ELSE <<Head(s)>>)
       \o EscapePathSegment(Tail(s))

DigitChars == <<"0", "1", "2", "3", "4", "5", "6", "7", "8", "9">>

RECURSIVE FormatUint(_)

\* strconv.FormatUint(n, 10)
FormatUint(n) ==
  IF n < 10 THEN <<DigitChars[n + 1]>>
  ELSE FormatUint(n \div 10) \o <<DigitChars[(n % 10) + 1]>>

\* vault.EncodePath
EncodePath(path, key, version) ==
  EscapePathSegment(path)
  \o (IF key # <<>> THEN <<":">> \o EscapePathSegment(key) ELSE <<>>)
  \o (IF version # 0 THEN <<"^">> \o FormatUint(version) ELSE <<>>)

\* the character at place i of s is c and no backslash stands before it
Unescaped(s, i, c) == s[i] = c /\ (i = 1 \/ s[i - 1] # "\\")

\* the place of the last unescaped c in s, 0 when there is none
LastUnescaped(s, c) ==
  IF \E i \in 1..Len(s) : Unescaped(s, i, c)
  THEN CHOOSE i \in 1..Len(s) :
         /\ Unescaped(s, i, c)
         /\ \A j \in (i + 1)..Len(s) : ~Unescaped(s, j, c)
  ELSE 0

RECURSIVE Unescape(_)

\* `\:` and `\^` read as ':' and '^'
Unescape(s) ==
  IF s = <<>> THEN <<>>
  ELSE IF Len(s) >= 2 /\ s[1] = "\\" /\ s[2] \in Delimiters
       THEN <<s[2]>> \o Unescape(SubSeq(s, 3, Len(s)))
  ELSE <<Head(s)>> \o Unescape(Tail(s))

IsDigit(c) == \E d \in 1..10 : DigitChars[d] = c

DigitValue(c) == (CHOOSE d \in 1..10 : DigitChars[d] = c) - 1

\* a string strconv.ParseUint reads as a number
IsNumeric(s) == s # <<>> /\ \A i \in 1..Len(s) : IsDigit(s[i])

RECURSIVE ParseUint(_)
ParseUint(s) ==
  IF s = <<>> THEN 0
  ELSE ParseUint(SubSeq(s, 1, Len(s) - 1)) * 10 + DigitValue(s[Len(s)])

\* the part of seg before its version suffix: seg itself when what follows
\* the last unescaped '^' is not a number
BeforeVersion(seg) ==
  IF /\ LastUnescaped(seg, "^") > 0
     /\ IsNumeric(SubSeq(seg, LastUnescaped(seg, "^") + 1, Len(seg)))
  THEN SubSeq(seg, 1, LastUnescaped(seg, "^") - 1)
  ELSE seg

\* the version a segment ends with, 0 when it ends with none
VersionOf(seg) ==
  IF BeforeVersion(seg) = seg THEN 0
  ELSE ParseUint(SubSeq(seg, LastUnescaped(seg, "^") + 1, Len(seg)))

\* ParsePath of a string without an unescaped ':'
ParsePathNoKey(s) ==
  [path |-> Unescape(BeforeVersion(s)), key |-> <<>>, version |-> VersionOf(s)]

\* ParsePath of a string whose last unescaped ':' stands at place colon
ParsePathKeyed(s, colon) ==
  [path |-> Unescape(SubSeq(s, 1, colon - 1)),
   key |-> Unescape(BeforeVersion(SubSeq(s, colon + 1, Len(s)))),
   version |-> VersionOf(SubSeq(s, colon + 1, Len(s)))]

\* vault.ParsePath
ParsePath(s) ==
  IF LastUnescaped(s, ":") = 0 THEN ParsePathNoKey(s)
  ELSE ParsePathKeyed(s, LastUnescaped(s, ":"))

(* ------------------------- generated backend states -------------------- *)

VerStates == {Alive, Deleted, Destroyed}

\* the latest version of m is Alive, so a read of the secret succeeds
Readable(m) == HasMeta(m) /\ m.vers[Len(m.vers)].st = Alive

\* the data of generated version number n holding the keys ks
GenData(n, ks) == [k \in Keys |-> IF k \in ks THEN n ELSE 0]

GenMeta(first, sts, kss) ==
  [first |-> first,
   vers |-> [i \in 1..Len(sts) |->
               [st |-> sts[i],
                data |-> IF sts[i] = Destroyed THEN Empty
                         ELSE GenData(first + i - 1, kss[i])]]]

\* every history of at most maxLen versions, the oldest numbered at most
\* maxFirst, each version holding one of the key sets KS
Metas(maxFirst, maxLen, KS) ==
  {NoMeta} \cup
  UNION {UNION {{GenMeta(first, sts, kss) :
                    sts \in [1..len -> VerStates], kss \in [1..len -> KS]} :
                 len \in 1..maxLen} :
         first \in 1..maxFirst}

OnlyAt(p, m) == [q \in AllPaths |-> IF q = p THEN m ELSE NoMeta]

NoOp ==
  [name |-> "none", p |-> <<>>, k |-> "", v |-> 0, q |-> <<>>, qk |-> "",
   qv |-> 0, any |-> FALSE, state |-> 0, destroy |-> FALSE, all |-> FALSE,
   skip |-> FALSE, deep |-> FALSE, delv |-> FALSE, quiet |-> FALSE,
   f |-> "none", fail |-> 0, args |-> <<>>, shallow |-> FALSE, doc |-> {},
   igdel |-> FALSE, igdes |-> FALSE, remote |-> <<>>, answers |-> <<>>,
   rest |-> <<>>, tty |-> FALSE]

\* the state after a call returned r
Done(o, r, rep) ==
  /\ pc' = "done"
  /\ op' = o
  /\ pre' = store
  /\ store' = r.w.st
  /\ err' = r.err
  /\ log' = r.w.log
  /\ ops' = r.w.ops
  /\ reported' = rep
  /\ UNCHANGED <<mountV, mounts, local>>

\* the state after a call returned r and printed r.val
DoneReporting(o, r) == Done(o, r, r.val)

\* the one mount that holds every path
OneMount == {<<>>}

IdleIn(st, mv, ms) ==
  /\ store = st
  /\ mountV = mv
  /\ mounts = ms
  /\ pc = "idle"
  /\ op = NoOp
  /\ pre = st
  /\ err = OK
  /\ log = <<>>
  /\ ops = <<>>
  /\ reported = {}
  /\ local = <<>>

Idle(st, mv) == IdleIn(st, mv, OneMount)

(* ------------------- specification: the verifier alone ----------------- *)

\* what the path a/x beneath the verified address holds: nothing or a secret
ChildMetas == {NoMeta, GenMeta(1, <<Alive>>, <<{"k1"}>>)}

InitVerify ==
  \E m \in Metas(MaxFirst + 1, MaxLen + 1, {{"k1"}}), mv \in {1, 2, 3},
     child \in ChildMetas :
    /\ mv = 1 => m \in Metas(1, 1, {{"k1"}}) /\ (HasMeta(m) => m.vers[1].st = Alive)
    /\ Idle([OnlyAt(PRoot, m) EXCEPT ![<<"a", "x">>] = child], mv)

VerifyStep ==
  /\ pc = "idle"
  /\ \E n \in 0..(MaxFirst + MaxLen + 2) \cup {9}, any \in BOOLEAN,
        state \in {verifyStateAlive, verifyStateAliveOrDeleted} :
       Done([NoOp EXCEPT !.name = "verify", !.p = PRoot, !.v = n,
                         !.any = any, !.state = state],
            VerifySecretState(World(store, mountV, mounts, 0), Addr(PRoot, "", n), any, state),
            {})

NextVerify == VerifyStep

SpecVerify == InitVerify /\ [][NextVerify]_vars

(* -------------- specification: one engine call on two secrets --------- *)

\* histories of the source secret: an Alive version holds {k1} or {k1, k2},
\* a Deleted one {k1}
SrcMetas ==
  {m \in Metas(MaxFirst, MaxLen, {{"k1"}, {"k1", "k2"}}) :
     \A i \in 1..Len(m.vers) : m.vers[i].st = Deleted => m.vers[i].data["k2"] = 0}

\* histories of the destination secret
DstMetas == Metas(1, 1, {{"k2"}})

TwoSecrets(m, d) ==
  [q \in AllPaths |-> IF q = PRoot THEN m ELSE IF q = QRoot THEN d ELSE NoMeta]

V1Meta(m) == Len(m.vers) <= 1 /\ m.first = 1 /\ (HasMeta(m) => m.vers[1].st = Alive)

InitEngine ==
  \E m \in SrcMetas, d \in DstMetas, mv \in {1, 2} :
    /\ mv = 1 => V1Meta(m) /\ V1Meta(d)
    /\ Idle(TwoSecrets(m, d), mv)

\* the versions an address may name: none, each retained one and the
\* numbers next to them
VersionArgs == 0..(MaxFirst + MaxLen)

KeyArgs == {"", "k1", "k2"}

FailArgs == 0..MaxFailAt

\* a call with a key or a version in its address is run without a failure
PlainIfFails(k, v, fail) == fail # 0 => (k = "" /\ v = 0)

DeleteStep ==
  /\ pc = "idle"
  /\ \E k \in KeyArgs, v \in VersionArgs, destroy \in BOOLEAN, all \in BOOLEAN,
        fail \in FailArgs :
       /\ PlainIfFails(k, v, fail)
       /\ Done([NoOp EXCEPT !.name = "delete", !.p = PRoot, !.k = k, !.v = v,
                            !.destroy = destroy, !.all = all, !.fail = fail],
               Delete(World(store, mountV, mounts, fail), Addr(PRoot, k, v), destroy, all),
               {})

UndeleteStep ==
  /\ pc = "idle"
  /\ \E k \in {"", "k1"}, v \in VersionArgs, fail \in FailArgs :
       /\ PlainIfFails(k, v, fail)
       /\ Done([NoOp EXCEPT !.name = "undelete", !.p = PRoot, !.k = k, !.v = v,
                            !.fail = fail],
               Undelete(World(store, mountV, mounts, fail), Addr(PRoot, k, v)),
               {})

UndeleteAllStep ==
  /\ pc = "idle"
  /\ \E k \in {"", "k1"}, v \in {0, 1}, fail \in FailArgs :
       Done([NoOp EXCEPT !.name = "undeleteall", !.p = PRoot, !.k = k, !.v = v,
                         !.all = TRUE, !.fail = fail],
            UndeleteAllCmd(World(store, mountV, mounts, fail), Addr(PRoot, k, v)),
            {})

\* op.v is the VERSION argument of revert
RevertStep ==
  /\ pc = "idle"
  /\ \E target \in VersionArgs, deleted \in BOOLEAN, fail \in FailArgs :
       /\ Done([NoOp EXCEPT !.name = "revert", !.p = PRoot, !.v = target,
                            !.delv = deleted, !.fail = fail],
               RevertCmd(World(store, mountV, mounts, fail), Addr(PRoot, "", 0), target, deleted),
               {})

\* the option combinations the commands can pass (DeletedVersions needs Deep)
OptArgs ==
  {o \in [skip : BOOLEAN, deep : BOOLEAN, delv : BOOLEAN, quiet : {FALSE}] :
     o.delv => o.deep}

\* destination addresses: plain, with a key, with a version
DstArgs == {Addr(QRoot, "", 0), Addr(QRoot, "k1", 0), Addr(QRoot, "", 1)}

CopyOp(name, k, v, dst, o, fail) ==
  [NoOp EXCEPT !.name = name, !.p = PRoot, !.k = k, !.v = v, !.q = dst.p,
               !.qk = dst.k, !.qv = dst.v, !.skip = o.skip, !.deep = o.deep,
               !.delv = o.delv, !.fail = fail]

CopyStep ==
  /\ pc = "idle"
  /\ \E k \in KeyArgs, v \in VersionArgs, dst \in DstArgs, o \in OptArgs,
        fail \in FailArgs :
       /\ PlainIfFails(k, v, fail)
       /\ fail # 0 => dst = Addr(QRoot, "", 0)
       /\ Done(CopyOp("copy", k, v, dst, o, fail),
               Copy(World(store, mountV, mounts, fail), Addr(PRoot, k, v), dst, o),
               {})

MoveStep ==
  /\ pc = "idle"
  /\ \E k \in KeyArgs, v \in VersionArgs, dst \in DstArgs, o \in OptArgs,
        fail \in FailArgs :
       /\ PlainIfFails(k, v, fail)
       /\ fail # 0 => dst = Addr(QRoot, "", 0)
       /\ Done(CopyOp("move", k, v, dst, o, fail),
               Move(World(store, mountV, mounts, fail), Addr(PRoot, k, v), dst, o),
               {})

NextEngine ==
  \/ DeleteStep
  \/ UndeleteStep
  \/ UndeleteAllStep
  \/ RevertStep
  \/ CopyStep
  \/ MoveStep

SpecEngine == InitEngine /\ [][NextEngine]_vars

(* ------------- specification: one deep copy of a whole secret ---------- *)

\* source histories one version longer than those of the engine, so that a
\* Destroyed, an Alive and a Deleted version fit side by side
DeepSrcMetas == Metas(MaxFirst, MaxLen + 1, {{"k1"}})

InitDeepCopy ==
  \E m \in DeepSrcMetas, d \in DstMetas :
    Idle(TwoSecrets(m, d), 2)

DeepCopyStep ==
  /\ pc = "idle"
  /\ \E delv \in BOOLEAN, fail \in FailArgs :
       Done(CopyOp("copy", "", 0, Addr(QRoot, "", 0),
                   Opts(FALSE, TRUE, delv, FALSE), fail),
            Copy(World(store, mountV, mounts, fail), Addr(PRoot, "", 0),
                 Addr(QRoot, "", 0), Opts(FALSE, TRUE, delv, FALSE)),
            {})

NextDeepCopy == DeepCopyStep

SpecDeepCopy == InitDeepCopy /\ [][NextDeepCopy]_vars

(* -------------- specification: one recursive copy or move -------------- *)

\* what a path of the tree may hold: nothing, a readable secret, or a
\* secret whose only version is Deleted
LeafMetas ==
  {NoMeta, GenMeta(1, <<Alive>>, <<{"k1"}>>), GenMeta(1, <<Deleted>>, <<{"k1"}>>)}

\* the paths of the two trees that are copied and moved
TreePaths == {q \in AllPaths : q[1] \in {"a", "b"}}

InitTree ==
  \E st \in [AllPaths -> LeafMetas] :
    /\ \A q \in AllPaths \ TreePaths : st[q] = NoMeta
    /\ HasMeta(st[QRoot]) => Readable(st[QRoot])
    /\ Idle(st, 2)

TreeFailArgs == 0..MaxTreeFailAt

\* the option combinations of a recursive copy or move
TreeOptArgs ==
  {o \in [skip : BOOLEAN, deep : BOOLEAN, delv : BOOLEAN, quiet : BOOLEAN] :
     /\ o.delv => o.deep
     /\ o.quiet => o.skip}

MoveCopyTreeStep ==
  /\ pc = "idle"
  /\ \E f \in {"copy", "move"}, o \in TreeOptArgs, fail \in TreeFailArgs :
       DoneReporting([NoOp EXCEPT !.name = "tree", !.f = f, !.p = PRoot, !.q = QRoot,
                                  !.skip = o.skip, !.deep = o.deep, !.delv = o.delv,
                                  !.quiet = o.quiet, !.fail = fail],
                     MoveCopyTree(World(store, mountV, mounts, fail), PRoot, QRoot, f, o))

NextTree == MoveCopyTreeStep

SpecTree == InitTree /\ [][NextTree]_vars

(* ------------ specification: DeleteTree, and DeleteTree again ---------- *)

\* histories of the root node and of one leaf
NodeMetas == Metas(1, MaxLen, {{"k1"}})

\* the subtree a, a/x, a/y
Subtree(m, x, y) ==
  [q \in AllPaths |-> IF q = PRoot THEN m
                      ELSE IF q = <<"a", "x">> THEN x
                      ELSE IF q = <<"a", "y">> THEN y
                      ELSE NoMeta]

InitDeleteTree ==
  \E m \in NodeMetas, x \in NodeMetas, y \in LeafMetas :
    Idle(Subtree(m, x, y), 2)

\* the roots DeleteTree is called on: the mount itself and the node a
RootArgs == {<<>>, PRoot}

DeleteTreeStep ==
  /\ pc = "idle"
  /\ \E root \in RootArgs, destroy \in BOOLEAN, all \in BOOLEAN,
        fail \in TreeFailArgs :
       Done([NoOp EXCEPT !.name = "deletetree", !.p = root, !.destroy = destroy,
                         !.all = all, !.fail = fail],
            DeleteTree(World(store, mountV, mounts, fail), root, destroy, all),
            {})

\* the state after a second call with the same arguments returned r
DoneAgain(r) ==
  /\ pc' = "again"
  /\ pre' = store
  /\ store' = r.w.st
  /\ err' = r.err
  /\ log' = r.w.log
  /\ ops' = r.w.ops
  /\ UNCHANGED <<op, mountV, mounts, reported, local>>

\* DeleteTree with the same options, directly after a run that succeeded
DeleteTreeAgainStep ==
  /\ pc = "done"
  /\ op.name = "deletetree"
  /\ op.fail = 0
  /\ err = OK
  /\ DoneAgain(DeleteTree(World(store, mountV, mounts, 0), op.p, op.destroy, op.all))

NextDeleteTree ==
  \/ DeleteTreeStep
  \/ DeleteTreeAgainStep

SpecDeleteTree == InitDeleteTree /\ [][NextDeleteTree]_vars

(* --------------------------- specification: export --------------------- *)

\* the two mounts a/ and b/
TwoMounts == {PRoot, QRoot}

\* histories of the leaf a/x: any numbering, any states
ExportMetas == Metas(MaxFirst, MaxLen, {{"k1"}})

\* histories of the leaf b/x, in the other mount
OtherMountMetas ==
  {NoMeta, GenMeta(1, <<Alive>>, <<{"k1"}>>),
   GenMeta(1, <<Alive, Alive>>, <<{"k1"}, {"k1"}>>),
   GenMeta(2, <<Deleted, Alive>>, <<{"k1"}, {"k1"}>>)}

\* the leaves a/x and a/y of one mount and b/x of the other
TwoTrees(x, y, z) ==
  [q \in AllPaths |-> IF q = <<"a", "x">> THEN x
                      ELSE IF q = <<"a", "y">> THEN y
                      ELSE IF q = <<"b", "x">> THEN z
                      ELSE NoMeta]

InitExport ==
  \E x \in ExportMetas, y \in {NoMeta, GenMeta(1, <<Alive>>, <<{"k1"}>>)},
     z \in OtherMountMetas :
    IdleIn(TwoTrees(x, y, z), 2, TwoMounts)

\* the argument lists of export: one tree, both trees in either order, a
\* tree and a leaf of it, an address with a key, one with a version
ExportArgs ==
  {<<Addr(PRoot, "", 0)>>,
   <<Addr(PRoot, "", 0), Addr(QRoot, "", 0)>>,
   <<Addr(QRoot, "", 0), Addr(PRoot, "", 0)>>,
   <<Addr(<<"a", "x">>, "", 0), Addr(PRoot, "", 0)>>,
   <<Addr(PRoot, "k1", 0)>>,
   <<Addr(PRoot, "", 1)>>}

ExportStep ==
  /\ pc = "idle"
  /\ \E args \in ExportArgs, all \in BOOLEAN, deleted \in BOOLEAN,
        shallow \in BOOLEAN, fail \in FailArgs :
       DoneReporting([NoOp EXCEPT !.name = "export", !.args = args, !.all = all,
                                  !.delv = deleted, !.shallow = shallow,
                                  !.fail = fail],
                     ExportCmd(World(store, mountV, mounts, fail), args, all,
                               deleted, shallow))

NextExport == ExportStep

SpecExport == InitExport /\ [][NextExport]_vars

(* --------------------------- specification: import --------------------- *)

\* an exported version
Exported(deleted, destroyed, n) ==
  [deleted |-> deleted, destroyed |-> destroyed,
   value |-> IF destroyed THEN Empty ELSE GenData(n, {"k1"})]

\* exported secrets: two Alive versions from 1 on; a Deleted and an Alive
\* one from 2 on; a Destroyed and an Alive one from 1 on
ExportedSecrets ==
  <<[first |-> {}, versions |-> <<Exported(FALSE, FALSE, 1), Exported(FALSE, FALSE, 2)>>],
    [first |-> {2}, versions |-> <<Exported(TRUE, FALSE, 2), Exported(FALSE, FALSE, 3)>>],
    [first |-> {}, versions |-> <<Exported(FALSE, TRUE, 1), Exported(FALSE, FALSE, 2)>>]>>

\* the data of an envelope: one secret, or one in each mount
EnvelopeData ==
  {<<"a", "x">> :> ExportedSecrets[1],
   <<"a", "x">> :> ExportedSecrets[2] @@ <<"b", "x">> :> ExportedSecrets[3]}

\* an element of the array of a versioned document
Element(version, data, rv) ==
  [json |-> "object", export_version |-> version, data |-> data,
   requires_versioning |-> rv]

JArray(elems) == [json |-> "array", elems |-> elems]

JObject(data) == [json |-> "object", data |-> data]

\* legacy documents: no secret, one, two, and an object that is an
\* envelope without its array
LegacyDocs ==
  {JObject(<<>>),
   JObject(<<"a", "x">> :> GenData(1, {"k1"})),
   JObject(<<"a", "x">> :> GenData(1, {"k1"}) @@ <<"b", "x">> :> GenData(2, {"k1", "k2"})),
   JObject(<<"export_version">> :> JNum(2))}

\* versioned documents
EnvelopeDocs ==
  {JArray(<<Element(JNum(2), d, rv)>>) :
     d \in EnvelopeData, rv \in {{}, {<<"a", "">>}, {<<"a", "">>, <<"b", "">>}}}

\* an element that declares no export_version
Undeclared(data) ==
  [json |-> "object", data |-> data, requires_versioning |-> {}]

\* every other input: arrays of no and of two elements, other and missing
\* versions, a version that is a string, an element that is no object, a
\* number, a string, null, and input that is not JSON
OtherDocs ==
  {JArray(<<>>)} \cup
  {JArray(<<Element(JNum(2), d, {}), Element(JNum(2), d, {})>>) :
     d \in EnvelopeData} \cup
  {JArray(<<Element(v, d, {})>>) :
     v \in {JNum(1), JNum(3), JStr("2")}, d \in EnvelopeData} \cup
  {JArray(<<Undeclared(d)>>) : d \in EnvelopeData} \cup
  {JArray(<<JNum(2)>>), JNum(2), JStr("a"), [json |-> "null"], [json |-> "invalid"]}

ImportDocs == LegacyDocs \cup EnvelopeDocs \cup OtherDocs

\* the paths and the flagged mounts a document names
DocElement(doc) ==
  IF doc.json = "array" /\ Len(doc.elems) >= 1 /\ doc.elems[1].json = "object"
  THEN doc.elems[1] ELSE Undeclared(<<>>)

DocData(doc) == IF doc.json = "object" THEN doc.data ELSE DocElement(doc).data

DocMounts(doc) == DocElement(doc).requires_versioning

\* every secret of the document keeps a version under the options
KeepsVersions(doc, shallow, igdel, igdes) ==
  doc.json = "array" =>
    \A p \in DOMAIN DocData(doc) :
      ImportVersions(DocData(doc)[p], shallow, igdel, igdes) # <<>>

InitImport ==
  \E x \in {NoMeta, GenMeta(1, <<Alive>>, <<{"k2"}>>)}, mv \in {1, 2} :
    IdleIn(OnlyAt(<<"a", "x">>, x), mv, TwoMounts)

\* op.args is the order in which the paths of the document are visited
ImportStep ==
  /\ pc = "idle"
  /\ \E doc \in ImportDocs, shallow \in BOOLEAN, igdel \in BOOLEAN,
        igdes \in BOOLEAN, skipIfExists \in BOOLEAN, fail \in FailArgs :
       /\ KeepsVersions(doc, shallow, igdel, igdes)
       /\ \E order \in Orders(DOMAIN DocData(doc)),
             morder \in Orders(DocMounts(doc)) :
            Done([NoOp EXCEPT !.name = "import", !.doc = doc, !.args = order,
                              !.shallow = shallow, !.igdel = igdel,
                              !.igdes = igdes, !.skip = skipIfExists,
                              !.fail = fail],
                 ImportCmd(World(store, mountV, mounts, fail), doc, order,
                           morder, shallow, igdel, igdes, skipIfExists),
                 {})

NextImport == ImportStep

SpecImport == InitImport /\ [][NextImport]_vars

(* ------------- specification: export, then import elsewhere ----------- *)

\* a secret with one version, Alive, numbered first, holding the keys ks
Single(first, ks) == GenMeta(first, <<Alive>>, <<ks>>)

\* what a leaf of the exported tree holds: nothing, or one version with
\* no, one or two keys
SingleMetas ==
  {NoMeta} \cup
  {Single(first, ks) : first \in 1..MaxFirst, ks \in {{}, {"k1"}, {"k1", "k2"}}}

\* a v1 mount numbers no versions and stores no secret without a key
FitsMount(m, mv) ==
  (mv = 1 /\ HasMeta(m)) => (m.first = 1 /\ ~SEmpty(m.vers[1].data))

InitRoundTrip ==
  \E x \in SingleMetas, y \in SingleMetas,
     z \in {NoMeta, Single(1, {"k1"})}, mv \in {1, 2} :
    /\ FitsMount(x, mv)
    /\ FitsMount(y, mv)
    /\ IdleIn(TwoTrees(x, y, z), mv, TwoMounts)

\* the backend without a secret
EmptyTree == [q \in AllPaths |-> NoMeta]

\* the state after the printed document was imported elsewhere: pre is the
\* tree the export read, store the tree the import wrote
DoneImported(r) ==
  /\ pc' = "imported"
  /\ pre' = store
  /\ store' = r.w.st
  /\ err' = r.err
  /\ log' = r.w.log
  /\ ops' = r.w.ops
  /\ UNCHANGED <<op, mountV, mounts, reported, local>>

\* import reads what a successful export printed and writes it to an empty
\* tree, visiting the paths of the document in some order
ImportExportedStep ==
  /\ pc = "done"
  /\ op.name = "export"
  /\ err = OK
  /\ \E doc \in reported :
       \E order \in Orders(DOMAIN DocData(doc)), morder \in Orders(DocMounts(doc)) :
         DoneImported(ImportCmd(World(EmptyTree, mountV, mounts, 0), doc, order,
                                morder, FALSE, FALSE, FALSE, FALSE))

NextRoundTrip ==
  \/ ExportStep
  \/ ImportExportedStep

SpecRoundTrip == InitRoundTrip /\ [][NextRoundTrip]_vars

(* ----------------------- specification: addresses ---------------------- *)

\* the lengths of the paths and of the keys
MaxPathLen == 3
MaxKeyLen == 2

\* a letter, the two delimiters, the escape character and a digit
AddressChars == {"a", ":", "^", "\\", "7"}

\* the strings of at most n characters
Strings(n) == UNION {[1..len -> AddressChars] : len \in 0..n}

\* no version, one digit, two digits
AddressVersions == {0, 7, 21}

\* op.p, op.k and op.v hold the path, the key and the version to encode
InitAddress ==
  /\ \E path \in Strings(MaxPathLen), key \in Strings(MaxKeyLen),
        version \in AddressVersions :
       op = [NoOp EXCEPT !.name = "address", !.p = path, !.k = key, !.v = version]
  /\ store = [q \in AllPaths |-> NoMeta]
  /\ pre = store
  /\ mountV = 2
  /\ mounts = OneMount
  /\ pc = "idle"
  /\ err = OK
  /\ log = <<>>
  /\ ops = <<>>
  /\ reported = {}
  /\ local = <<>>

\* the address is encoded and the string parsed; reported holds the result
ParseEncodedStep ==
  /\ pc = "idle"
  /\ op.name = "address"
  /\ pc' = "done"
  /\ reported' = {ParsePath(EncodePath(op.p, op.k, op.v))}
  /\ UNCHANGED <<store, mountV, mounts, op, pre, err, log, ops, local>>

NextAddress == ParseEncodedStep

SpecAddress == InitAddress /\ [][NextAddress]_vars

(* ------------------------------- vaultsync ----------------------------- *)

\* a string is a sequence of characters; the byte of each character
CharCode ==
  [c \in {" ", "\"", ",", "-", "/", "5", ":", "[", "]", "a", "b", "h", "n",
          "x", "y", "{", "}"} |->
     CASE c = " " -> 32 [] c = "\"" -> 34 [] c = "," -> 44 [] c = "-" -> 45
       [] c = "/" -> 47 [] c = "5" -> 53 [] c = ":" -> 58 [] c = "[" -> 91
       [] c = "]" -> 93 [] c = "a" -> 97 [] c = "b" -> 98 [] c = "h" -> 104
       [] c = "n" -> 110 [] c = "x" -> 120 [] c = "y" -> 121
       [] c = "{" -> 123 [] c = "}" -> 125]

RECURSIVE StringLess(_, _)

\* s < t as Go compares strings: byte by byte, a prefix before its extensions
StringLess(s, t) ==
  IF Len(t) = 0 THEN FALSE
  ELSE IF Len(s) = 0 THEN TRUE
  ELSE IF s[1] # t[1] THEN CharCode[s[1]] < CharCode[t[1]]
  ELSE StringLess(Tail(s), Tail(t))

RECURSIVE SortStrings(_)

\* sort.Strings over the keys of a map
SortStrings(S) ==
  IF S = {} THEN <<>>
  ELSE LET m == CHOOSE x \in S : \A y \in S \ {x} : StringLess(x, y)
       IN <<m>> \o SortStrings(S \ {m})

RECURSIVE TrimSpaceLeft(_)

TrimSpaceLeft(s) ==
  IF Len(s) > 0 /\ s[1] = " " THEN TrimSpaceLeft(Tail(s)) ELSE s

RECURSIVE TrimSpaceRight(_)

TrimSpaceRight(s) ==
  IF Len(s) > 0 /\ s[Len(s)] = " "
  THEN TrimSpaceRight(SubSeq(s, 1, Len(s) - 1)) ELSE s

\* strings.TrimSpace
TrimSpace(s) == TrimSpaceRight(TrimSpaceLeft(s))

\* the member names of the JSON objects of the model, sorted
MemberNames == <<"n">>

RECURSIVE Marshal(_)

RECURSIVE MarshalElems(_, _)

\* the elements elems[i..] of an array, comma separated
MarshalElems(elems, i) ==
  IF i > Len(elems) THEN <<>>
  ELSE (IF i > 1 THEN <<",">> ELSE <<>>) \o Marshal(elems[i])
       \o MarshalElems(elems, i + 1)

RECURSIVE MarshalMembers(_, _, _)

\* the members of an object in the order of their names, comma separated
MarshalMembers(data, i, first) ==
  IF i > Len(MemberNames) THEN <<>>
  ELSE IF MemberNames[i] \notin DOMAIN data
       THEN MarshalMembers(data, i + 1, first)
  ELSE (IF first THEN <<>> ELSE <<",">>)
       \o <<"\"", MemberNames[i], "\"", ":">> \o Marshal(data[MemberNames[i]])
       \o MarshalMembers(data, i + 1, FALSE)

\* json.Marshal: the compact text of a value (the strings of the model hold
\* no character that JSON escapes)
Marshal(v) ==
  IF v.json = "number" THEN FormatUint(v.n)
  ELSE IF v.json = "string" THEN <<"\"">> \o v.s \o <<"\"">>
  ELSE IF v.json = "array" THEN <<"[">> \o MarshalElems(v.elems, 1) \o <<"]">>
  ELSE <<"{">> \o MarshalMembers(v.data, 1, TRUE) \o <<"}">>

\* the strings that the values of the Vault hold: value n holds SyncTexts[n]
SyncTexts ==
  <<<<"h">>, <<"5">>, <<"{", "}">>, <<"[", "5", "]">>, <<" ", "{", "}">>,
    <<"{">>>>

\* the values a JSON text of the model can decode to
JSONValues ==
  {JNum(5), JObject(<<>>), JObject("n" :> JNum(5)), JArray(<<>>),
   JArray(<<JNum(5)>>)}
  \cup {JStr(SyncTexts[n]) : n \in 1..Len(SyncTexts)}

InvalidJSON == [json |-> "invalid"]

\* json.Unmarshal into an interface{}: the value whose text this is
Unmarshal(text) ==
  IF \E v \in JSONValues : Marshal(v) = text
  THEN CHOOSE v \in JSONValues : Marshal(v) = text
  ELSE InvalidJSON

\* ExpandValue, once the trimmed text was parsed
ExpandValueParsed(s, parsed) ==
  IF parsed = InvalidJSON THEN JStr(s) ELSE parsed

\* ExpandValue, once s was trimmed
ExpandValueTrimmed(s, trimmed) ==
  IF Len(trimmed) = 0 THEN JStr(s)
  ELSE IF trimmed[1] # "{" /\ trimmed[1] # "[" THEN JStr(s)
  ELSE ExpandValueParsed(s, Unmarshal(trimmed))

\* vaultsync.ExpandValue
ExpandValue(s) == ExpandValueTrimmed(s, TrimSpace(s))

\* vaultsync.PackValue
PackValue(v) == IF v.json = "string" THEN v.s ELSE Marshal(v)

\* reflect.DeepEqual of two decoded JSON values
ValuesEqual(a, b) == a.json = b.json /\ a = b

\* mapsEqual without the comparison of the lengths
MapsEqualOneWay(a, b) ==
  \A k \in DOMAIN a : k \in DOMAIN b /\ ValuesEqual(a[k], b[k])

\* vaultsync.mapsEqual
MapsEqual(a, b) ==
  /\ Cardinality(DOMAIN a) = Cardinality(DOMAIN b)
  /\ \A k \in DOMAIN a : k \in DOMAIN b /\ ValuesEqual(a[k], b[k])

ChangeNone == "none"
ChangeAdd == "add"
ChangeModify == "modify"
ChangeDelete == "delete"

\* the local paths of a list of LocalSecret
LocalPaths(secrets) == {secrets[i].path : i \in 1..Len(secrets)}

\* localMap[path]: the data of the last LocalSecret with that path
LocalMap(secrets, path) ==
  secrets[CHOOSE i \in 1..Len(secrets) :
            /\ secrets[i].path = path
            /\ \A j \in (i + 1)..Len(secrets) : secrets[j].path # path].data

\* the Change of ComputeChanges for one path
ChangeOf(secrets, remote, path) ==
  IF path \notin DOMAIN remote
  THEN [type |-> ChangeAdd, path |-> path,
        localData |-> LocalMap(secrets, path), remoteData |-> <<>>]
  ELSE IF path \notin LocalPaths(secrets)
  THEN [type |-> ChangeDelete, path |-> path,
        localData |-> <<>>, remoteData |-> remote[path]]
  ELSE [type |-> IF MapsEqual(LocalMap(secrets, path), remote[path])
                 THEN ChangeNone ELSE ChangeModify,
        path |-> path,
        localData |-> LocalMap(secrets, path), remoteData |-> remote[path]]

\* ComputeChanges, once the paths were sorted
ComputeChangesSorted(secrets, remote, sorted) ==
  [i \in 1..Len(sorted) |-> ChangeOf(secrets, remote, sorted[i])]

\* vaultsync.ComputeChanges
ComputeChanges(secrets, remote) ==
  ComputeChangesSorted(secrets, remote,
                       SortStrings(LocalPaths(secrets) \cup DOMAIN remote))

\* ChangeSet.Counts
Counts(cs) ==
  [adds |-> Cardinality({i \in 1..Len(cs) : cs[i].type = ChangeAdd}),
   modifies |-> Cardinality({i \in 1..Len(cs) : cs[i].type = ChangeModify}),
   deletes |-> Cardinality({i \in 1..Len(cs) : cs[i].type = ChangeDelete})]

\* ChangeSet.HasChanges
HasChanges(cs) == Counts(cs).adds + Counts(cs).modifies + Counts(cs).deletes > 0

TextOf(n) == SyncTexts[n]

\* the value of the Vault that holds the string s
ValueOf(s) == CHOOSE n \in 1..Len(SyncTexts) : SyncTexts[n] = s

\* secretToExpandedMap
SecretToExpandedMap(d) == [k \in SKeys(d) |-> ExpandValue(TextOf(d[k]))]

\* PackMap, and the Secret that Apply sets from the packed map
PackMap(m) ==
  [k \in Keys |-> IF k \in DOMAIN m THEN ValueOf(PackValue(m[k])) ELSE 0]

\* the path that a path string names, its segments between the slashes
PathOfString(s) == SelectSeq(s, LAMBDA c : c # "/")

\* the entries of secrets that hold a version
WithVersions(secrets) == SelectSeq(secrets, LAMBDA e : Len(e.versions) > 0)

\* the entry of secrets at the path string s
EntryOfString(secrets, s) ==
  secrets[CHOOSE i \in 1..Len(secrets) : PathString(secrets[i].path) = s]

\* the data of the latest version of an entry, expanded
LatestExpanded(entry) ==
  SecretToExpandedMap(entry.versions[Len(entry.versions)].data)

\* the remoteMap of fetchRemoteState
RemoteMap(secrets) ==
  [s \in {PathString(e.path) : e \in SeqToSet(WithVersions(secrets))} |->
     LatestExpanded(EntryOfString(secrets, s))]

\* fetchRemoteState, once ConstructSecrets returned
FetchRemoteStateFetched(r) ==
  IF r.err # OK THEN RetV(r.w, r.err, <<>>)
  ELSE RetV(r.w, OK, RemoteMap(r.val))

\* vaultsync.fetchRemoteState
FetchRemoteState(w, vaultPath) ==
  FetchRemoteStateFetched(
    ConstructSecretsKeys(w, vaultPath, FALSE, FALSE, FALSE))

\* Plan, once the remote state was fetched
PlanFetched(r, secrets) ==
  IF r.err # OK THEN RetV(r.w, r.err, <<>>)
  ELSE RetV(r.w, OK, ComputeChanges(secrets, r.val))

\* vaultsync.Plan over the local state secrets
Plan(w, vaultPath, secrets) ==
  PlanFetched(FetchRemoteState(w, vaultPath), secrets)

\* the answer the user gives to the j-th prompt: the answers listed, and
\* from then on the one that follows them all
AnswerAt(answers, rest, j) == IF j <= Len(answers) THEN answers[j] ELSE rest

\* what Apply did: the plan, the prompts made, the calls of Write and Delete
Applied(cs, asked, calls) == [cs |-> cs, asked |-> asked, calls |-> calls]

RECURSIVE ApplyChanges(_, _, _, _)

\* the change cs[i] of Apply was written or deleted
ApplyChangesDone(r, cs, i, calls) ==
  IF r.err # OK THEN RetV(r.w, r.err, Applied(cs, 1, calls))
  ELSE ApplyChanges(r.w, cs, i + 1, calls)

\* the loop of Apply over the changes cs[i..]
ApplyChanges(w, cs, i, calls) ==
  IF i > Len(cs) THEN RetV(w, OK, Applied(cs, 1, calls))
  ELSE IF cs[i].type \in {ChangeAdd, ChangeModify}
       THEN ApplyChangesDone(
              Write(w, Addr(PathOfString(cs[i].path), "", 0),
                    PackMap(cs[i].localData)),
              cs, i, Append(calls, [call |-> "Write", path |-> cs[i].path]))
  ELSE IF cs[i].type = ChangeDelete
       THEN ApplyChangesDone(
              Delete(w, Addr(PathOfString(cs[i].path), "", 0), FALSE, FALSE),
              cs, i, Append(calls, [call |-> "Delete", path |-> cs[i].path]))
  ELSE ApplyChanges(w, cs, i + 1, calls)

\* Apply going on to its loop whatever the answer
ApplyPlannedUnconfirmed(pl, answers, rest) ==
  IF pl.err # OK THEN RetV(pl.w, pl.err, Applied(<<>>, 0, <<>>))
  ELSE IF ~HasChanges(pl.val) THEN RetV(pl.w, OK, Applied(pl.val, 0, <<>>))
  ELSE ApplyChanges(pl.w, pl.val, 1, <<>>)

\* Apply, once Plan returned
ApplyPlanned(pl, answers, rest) ==
  IF pl.err # OK THEN RetV(pl.w, pl.err, Applied(<<>>, 0, <<>>))
  ELSE IF ~HasChanges(pl.val) THEN RetV(pl.w, OK, Applied(pl.val, 0, <<>>))
  ELSE IF AnswerAt(answers, rest, 1) \notin {<<"y">>, <<"y", "e", "s">>}
       THEN RetV(pl.w, OK, Applied(pl.val, 1, <<>>))
  ELSE ApplyChanges(pl.w, pl.val, 1, <<>>)

\* vaultsync.Apply
Apply(w, vaultPath, secrets, answers, rest) ==
  ApplyPlanned(Plan(w, vaultPath, secrets), answers, rest)

\* WriteLocalSecret and the ReadLocalState that reads the file back: the
\* data go through their JSON text
WriteLocalSecret(secrets, path, data) ==
  IF path \in LocalPaths(secrets)
  THEN [i \in 1..Len(secrets) |->
          IF secrets[i].path = path
          THEN [path |-> path,
                data |-> [k \in DOMAIN data |-> Unmarshal(Marshal(data[k]))]]
          ELSE secrets[i]]
  ELSE Append(secrets,
              [path |-> path,
               data |-> [k \in DOMAIN data |-> Unmarshal(Marshal(data[k]))]])

\* what Pull did: the local state it left, the paths it wrote in order, and
\* the prompts it made
Pulled(secrets, written, asked) ==
  [local |-> secrets, written |-> written, asked |-> asked]

RECURSIVE PullEntries(_, _, _, _, _, _, _, _, _)

RECURSIVE PullPrompt(_, _, _, _, _, _, _, _, _)

\* the prompt loop of Pull taking every answer but l and s for r
PullPromptDefaultRemote(entries, i, localMap, secrets, tty, answers, rest, written, asked) ==
  IF AnswerAt(answers, rest, asked + 1) \in {<<"l">>, <<"s">>}
  THEN PullEntries(entries, i + 1, localMap, secrets, tty, answers, rest,
                   written, asked + 1)
  ELSE PullEntries(entries, i + 1, localMap,
                   WriteLocalSecret(secrets, PathString(entries[i].path),
                                    LatestExpanded(entries[i])),
                   tty, answers, rest,
                   Append(written, PathString(entries[i].path)), asked + 1)

\* the prompt loop of Pull for the conflicting entry entries[i]
PullPrompt(entries, i, localMap, secrets, tty, answers, rest, written, asked) ==
  IF AnswerAt(answers, rest, asked + 1) = <<"l">>
  THEN PullEntries(entries, i + 1, localMap, secrets, tty, answers, rest,
                   written, asked + 1)
  ELSE IF AnswerAt(answers, rest, asked + 1) = <<"r">>
  THEN PullEntries(entries, i + 1, localMap,
                   WriteLocalSecret(secrets, PathString(entries[i].path),
                                    LatestExpanded(entries[i])),
                   tty, answers, rest,
                   Append(written, PathString(entries[i].path)), asked + 1)
  ELSE IF AnswerAt(answers, rest, asked + 1) = <<"s">>
  THEN PullEntries(entries, i + 1, localMap, secrets, tty, answers, rest,
                   written, asked + 1)
  ELSE PullPrompt(entries, i, localMap, secrets, tty, answers, rest, written,
                  asked + 1)

\* the loop of Pull over the entries[i..]; localMap is the local state that
\* Pull read before the loop
PullEntries(entries, i, localMap, secrets, tty, answers, rest, written, asked) ==
  IF i > Len(entries) THEN Pulled(secrets, written, asked)
  ELSE IF Len(entries[i].versions) = 0
       THEN PullEntries(entries, i + 1, localMap, secrets, tty, answers, rest,
                        written, asked)
  ELSE IF PathString(entries[i].path) \notin LocalPaths(localMap)
          \/ (~MapsEqual(LocalMap(localMap, PathString(entries[i].path)),
                         LatestExpanded(entries[i])) /\ ~tty)
       THEN PullEntries(entries, i + 1, localMap,
                        WriteLocalSecret(secrets, PathString(entries[i].path),
                                         LatestExpanded(entries[i])),
                        tty, answers, rest,
                        Append(written, PathString(entries[i].path)), asked)
  ELSE IF MapsEqual(LocalMap(localMap, PathString(entries[i].path)),
                    LatestExpanded(entries[i]))
       THEN PullEntries(entries, i + 1, localMap, secrets, tty, answers, rest,
                        written, asked)
  ELSE PullPrompt(entries, i, localMap, secrets, tty, answers, rest, written,
                  asked)

\* Pull, once ConstructSecrets returned
PullFetched(r, secrets, tty, answers, rest) ==
  IF r.err # OK THEN RetV(r.w, r.err, Pulled(secrets, <<>>, 0))
  ELSE RetV(r.w, OK,
            PullEntries(r.val, 1, secrets, secrets, tty, answers, rest,
                        <<>>, 0))

\* vaultsync.Pull
Pull(w, vaultPath, secrets, tty, answers, rest) ==
  PullFetched(ConstructSecretsKeys(w, vaultPath, FALSE, FALSE, FALSE),
              secrets, tty, answers, rest)

(* ---------------- specification: one move of a whole secret ------------ *)

\* destinations of a move: another secret, and the source itself
MoveDstArgs == {Addr(QRoot, "", 0), Addr(PRoot, "", 0)}

InitMove == InitEngine

\* one call of Move on the whole secret at PRoot
MoveSecretStep ==
  /\ pc = "idle"
  /\ \E dst \in MoveDstArgs, o \in OptArgs, fail \in FailArgs :
       Done(CopyOp("movesecret", "", 0, dst, o, fail),
            Move(World(store, mountV, mounts, fail), Addr(PRoot, "", 0), dst, o),
            {})

NextMove == MoveSecretStep

SpecMove == InitMove /\ [][NextMove]_vars

(* ------------- specification: export of paths with a common prefix ----- *)

\* the tree next to PRoot whose name starts with the name of PRoot
RRoot == <<"ab">>

\* secrets at a/x and at ab/x, on the one mount of the backend
PrefixTrees(x, z) ==
  [q \in AllPaths |-> IF q = <<"a", "x">> THEN x
                      ELSE IF q = <<"ab", "x">> THEN z
                      ELSE NoMeta]

PrefixMetas == Metas(1, MaxLen, {{"k1"}}) \ {NoMeta}

InitExportPrefix ==
  \E x \in PrefixMetas, z \in PrefixMetas, mv \in {1, 2} :
    /\ mv = 1 => V1Meta(x) /\ V1Meta(z)
    /\ IdleIn(PrefixTrees(x, z), mv, OneMount)

\* the argument lists: each tree alone, both in either order, a tree and a
\* leaf of it, a tree twice
PrefixArgs ==
  {<<Addr(PRoot, "", 0)>>,
   <<Addr(RRoot, "", 0)>>,
   <<Addr(PRoot, "", 0), Addr(RRoot, "", 0)>>,
   <<Addr(RRoot, "", 0), Addr(PRoot, "", 0)>>,
   <<Addr(PRoot, "", 0), Addr(<<"a", "x">>, "", 0)>>,
   <<Addr(RRoot, "", 0), Addr(RRoot, "", 0)>>}

\* one call of the export command on trees with a common prefix
ExportPrefixStep ==
  /\ pc = "idle"
  /\ \E args \in PrefixArgs, all \in BOOLEAN, deleted \in BOOLEAN,
        fail \in FailArgs :
       DoneReporting([NoOp EXCEPT !.name = "export", !.args = args, !.all = all,
                                  !.delv = deleted, !.fail = fail],
                     ExportCmd(World(store, mountV, mounts, fail), args, all,
                               deleted, FALSE))

NextExportPrefix == ExportPrefixStep

SpecExportPrefix == InitExportPrefix /\ [][NextExportPrefix]_vars

(* --------------------- specification: ComputeChanges ------------------- *)

\* the paths of the compared states: a, a-, a/x, b
ChangePaths == {<<"a">>, <<"a", "-">>, <<"a", "/", "x">>, <<"b">>}

\* the data of the compared secrets
ChangeDatas ==
  {<<>>, "k1" :> JStr(<<"h">>), "k1" :> JNum(5),
   ("k1" :> JStr(<<"h">>)) @@ ("k2" :> JObject("n" :> JNum(5)))}

\* the data of the remote secrets
RemoteDatas ==
  {"k1" :> JStr(<<"h">>),
   ("k1" :> JStr(<<"h">>)) @@ ("k2" :> JObject("n" :> JNum(5)))}

\* most entries of a local list
MaxLocal == 2

LocalLists ==
  UNION {[1..n -> [path : ChangePaths, data : ChangeDatas]] : n \in 0..MaxLocal}

RemoteMaps == UNION {[S -> RemoteDatas] : S \in SUBSET ChangePaths}

InitChanges ==
  /\ store = <<>>
  /\ mountV = 1
  /\ mounts = OneMount
  /\ pc = "idle"
  /\ \E r \in RemoteMaps : op = [NoOp EXCEPT !.name = "changes", !.remote = r]
  /\ pre = <<>>
  /\ err = OK
  /\ log = <<>>
  /\ ops = <<>>
  /\ reported = {}
  /\ local \in LocalLists

\* one call of ComputeChanges, its ChangeSet reported
ComputeChangesStep ==
  /\ pc = "idle"
  /\ op.name = "changes"
  /\ pc' = "done"
  /\ reported' = {ComputeChanges(local, op.remote)}
  /\ UNCHANGED <<store, mountV, mounts, op, pre, err, log, ops, local>>

NextChanges == ComputeChangesStep

SpecChanges == InitChanges /\ [][NextChanges]_vars

(* ------------------ specification: sync pull, apply, plan -------------- *)

\* the Vault path that is synchronised, and the secrets beneath it
SyncRoot == PRoot

SyncLeaves == {<<"a", "x">>, <<"a", "y">>}

\* a secret of one Alive version holding the value n at k1
SyncSecret(n) ==
  [first |-> 1,
   vers |-> <<[st |-> Alive, data |-> [k \in Keys |-> IF k = "k1" THEN n ELSE 0]]>>]

\* the secrets of the Vault before a sync: none, the strings h, 5, {} and a
\* text that starts as an object and is none
SyncMetas == {NoMeta, SyncSecret(1), SyncSecret(2), SyncSecret(3), SyncSecret(6)}

\* the data of the local files: no key, a string, a number, a string that
\* holds an object, an object, and two keys
SyncDatas ==
  {<<>>, "k1" :> JStr(<<"h">>), "k1" :> JNum(5), "k1" :> JStr(<<"{", "}">>),
   "k1" :> JObject(<<>>),
   ("k1" :> JStr(<<"h">>)) @@ ("k2" :> JArray(<<JNum(5)>>))}

\* the local states: a file or none for each of a/x and a/y
SyncLocals ==
  {<<>>}
  \cup {<<[path |-> <<"a", "/", "x">>, data |-> d]>> : d \in SyncDatas}
  \cup {<<[path |-> <<"a", "/", "y">>, data |-> d]>> : d \in SyncDatas}
  \cup {<<[path |-> <<"a", "/", "x">>, data |-> d],
          [path |-> <<"a", "/", "y">>, data |-> e]>> :
          d \in SyncDatas, e \in {"k1" :> JStr(<<"h">>), "k1" :> JNum(5)}}

InitSync ==
  /\ \E x \in SyncMetas, y \in {NoMeta, SyncSecret(1), SyncSecret(3)},
        mv \in {1, 2} :
       /\ store = [q \in AllPaths |->
                     IF q = <<"a", "x">> THEN x
                     ELSE IF q = <<"a", "y">> THEN y ELSE NoMeta]
       /\ pre = store
       /\ mountV = mv
  /\ mounts = OneMount
  /\ pc = "idle"
  /\ op = NoOp
  /\ err = OK
  /\ log = <<>>
  /\ ops = <<>>
  /\ reported = {}
  /\ local \in SyncLocals

\* the answers to the prompts of Pull
PullAnswers == {<<"l">>, <<"r">>, <<"s">>, <<"x">>}

\* the answers to the prompt of Apply
ApplyAnswers == {<<"y">>, <<"y", "e", "s">>, <<"n">>, <<>>}

\* most answers listed for a call of Pull
MaxAnswers == 2

\* the latest backend call of a sync that may be made to fail
MaxSyncFailAt == 8

\* the state after a sync call returned r, the local state being loc
DoneSynced(o, r, loc) ==
  /\ pc' = "done"
  /\ op' = o
  /\ pre' = store
  /\ store' = r.w.st
  /\ err' = r.err
  /\ log' = r.w.log
  /\ ops' = r.w.ops
  /\ reported' = {r.val}
  /\ local' = loc
  /\ UNCHANGED <<mountV, mounts>>

\* the state after Pull returned r
DonePulled(o, r) == DoneSynced(o, r, r.val.local)

\* one call of Pull; isTTY and the answers of the user are inputs.  The
\* answers vary only where Pull can come to ask: on a terminal, and with no
\* failing backend call, all of which Pull makes before its first prompt
PullStep ==
  /\ pc = "idle"
  /\ \E tty \in BOOLEAN, answers \in [1..MaxAnswers -> PullAnswers],
        rest \in {<<"r">>, <<"s">>}, fail \in 0..MaxSyncFailAt :
       /\ ~tty \/ fail # 0 =>
            answers = [j \in 1..MaxAnswers |-> <<"s">>] /\ rest = <<"s">>
       /\ DonePulled([NoOp EXCEPT !.name = "pull", !.p = SyncRoot,
                                  !.doc = local, !.tty = tty,
                                  !.answers = answers, !.rest = rest,
                                  !.fail = fail],
                     Pull(World(store, mountV, mounts, fail), SyncRoot,
                          local, tty, answers, rest))

\* one call of Apply; the answer of the user is an input
ApplyStep ==
  /\ pc = "idle"
  /\ \E answer \in ApplyAnswers, fail \in 0..MaxSyncFailAt :
       DoneSynced([NoOp EXCEPT !.name = "apply", !.p = SyncRoot,
                               !.doc = local, !.answers = <<answer>>,
                               !.fail = fail],
                  Apply(World(store, mountV, mounts, fail), SyncRoot, local,
                        <<answer>>, <<>>),
                  local)

\* the state after the second Plan returned r
DonePlanned(r) ==
  /\ pc' = "planned"
  /\ pre' = store
  /\ store' = r.w.st
  /\ err' = r.err
  /\ reported' = {r.val}
  /\ UNCHANGED <<op, mountV, mounts, log, ops, local>>

\* Plan, called after an Apply that returned success, nothing else having
\* touched the local directory or the Vault between the two
PlanAgainStep ==
  /\ pc = "done"
  /\ op.name = "apply"
  /\ err = OK
  /\ DonePlanned(Plan(World(store, mountV, mounts, 0), op.p, local))

NextSync ==
  \/ PullStep
  \/ ApplyStep
  \/ PlanAgainStep

SpecSync == InitSync /\ [][NextSync]_vars

(* ----------------------- claims on the verifier ------------------------ *)

VerifyDone(any) ==
  /\ pc = "done"
  /\ op.name = "verify"
  /\ mountV = 2
  /\ op.any = any
  /\ HasMeta(pre[PRoot])

\* the retained record numbered n, the latest one for n = 0
RecordOf(m, n) ==
  IF n = 0 THEN m.vers[Len(m.vers)]
  ELSE m.vers[CHOOSE i \in 1..Len(m.vers) : m.first + i - 1 = n]

\* C2: on a v2 mount with AnyVersion = false, an explicit version below the
\* oldest retained number yields a Destroyed error and one above the newest a
\* does-not-yet-exist error; otherwise the record numbered n (the latest
\* when no version is given) decides: Destroyed yields a Destroyed error,
\* Deleted with required state Alive a Deleted error, anything else succeeds.
C2_VerifyOneVersion ==
  VerifyDone(FALSE) =>
    LET m == pre[PRoot]
        n == op.v
    IN IF n # 0 /\ n < m.first THEN err = "IsDestroyed"
       ELSE IF n # 0 /\ n > LastNum(m) THEN err = "NotYetExist"
       ELSE IF RecordOf(m, n).st = Destroyed THEN err = "IsDestroyed"
       ELSE IF RecordOf(m, n).st = Deleted /\ op.state = verifyStateAlive
            THEN err = "IsDeleted"
       ELSE err = OK

\* retained versions [3:Alive, 4:Deleted, 5:Destroyed]
C2_Example == GenMeta(3, <<Alive, Deleted, Destroyed>>, <<{"k1"}, {"k1"}, {"k1"}>>)

\* C2 witness: ^4 with required state Alive on the example fails as Deleted
C2_Witness ==
  /\ VerifyDone(FALSE)
  /\ pre[PRoot] = C2_Example
  /\ op.v = 4
  /\ op.state = verifyStateAlive
  /\ err = "IsDeleted"

\* C3: on a v2 mount with AnyVersion = true the verifier succeeds iff some
\* retained version satisfies the requested predicate, whatever version the
\* address names; otherwise it returns the not-found-class error that names
\* the requested predicate.
C3_VerifyAnyVersion ==
  VerifyDone(TRUE) =>
    LET m == pre[PRoot]
        sat == IF op.state = verifyStateAlive
               THEN \E i \in 1..Len(m.vers) : m.vers[i].st = Alive
               ELSE \E i \in 1..Len(m.vers) : m.vers[i].st # Destroyed
    IN /\ (err = OK) <=> sat
       /\ ~sat => /\ IsNotFound(err)
                  /\ err = IF op.state = verifyStateAlive THEN "NoLiving"
                           ELSE "NoLivingOrDeleted"

\* C3 witness: the address names a Destroyed version, another retained
\* version is only Deleted, and AliveOrDeleted is satisfied
C3_Witness ==
  /\ VerifyDone(TRUE)
  /\ op.state = verifyStateAliveOrDeleted
  /\ Retained(pre[PRoot], op.v)
  /\ VerAt(pre[PRoot], op.v).st = Destroyed
  /\ \A i \in 1..Len(pre[PRoot].vers) : pre[PRoot].vers[i].st # Alive
  /\ err = OK

(* ----------------------- claims on the engine -------------------------- *)

\* the mutating backend calls a call issued on path p, by kind
CallsOn(p, kinds) ==
  {i \in 1..Len(log) : log[i].p = p /\ log[i].call \in kinds}

Mutations == {"set", "delete", "destroy", "destroyall", "undelete"}

\* a Copy or Move between the two plain addresses, run without a failure
\* injected, with skipIfExists set, from a readable source onto an existing
\* destination
SkipOntoExisting ==
  /\ pc = "done"
  /\ op.name \in {"copy", "move"}
  /\ op.skip
  /\ op.fail = 0
  /\ op.k = "" /\ op.v = 0 /\ op.qk = "" /\ op.qv = 0
  /\ Readable(pre[PRoot])
  /\ Readable(pre[QRoot])

\* C1: Copy and Move with skipIfExists onto an existing destination return
\* success, write nothing to the destination and leave the source's
\* versions and data as they were.
C1_SkipIfExistsNoMutation ==
  SkipOntoExisting =>
    /\ err = OK
    /\ CallsOn(QRoot, Mutations) = {}
    /\ op.name = "move" => CallsOn(PRoot, {"delete", "destroy", "destroyall"}) = {}
    /\ store = pre

\* the address names a key and a retained version that is not the latest
KeyOfOldVersion ==
  /\ pc = "done"
  /\ op.name \in {"delete", "move"}
  /\ op.p = PRoot
  /\ op.k # ""
  /\ op.v # 0
  /\ Retained(pre[PRoot], op.v)
  /\ op.v # LastNum(pre[PRoot])

\* C4: Delete and Move of a key at a non-latest version whose snapshot holds
\* more than one key, or not that key, return an error and issue no write,
\* delete or destroy.
C4_SemanticDeleteGuard ==
  (KeyOfOldVersion /\ SKeys(VerAt(pre[PRoot], op.v).data) # {op.k}) =>
    /\ err # OK
    /\ log = <<>>
    /\ store = pre

\* C5: a call that issues no destroy-all on a secret leaves every Destroyed
\* version of it Destroyed, and Undelete of a Destroyed version returns the
\* Destroyed error and changes nothing.
C5_DestroyedIsTerminal ==
  pc = "done" =>
    /\ \A p \in {PRoot, QRoot} : \A n \in 1..(MaxFirst + MaxLen) :
         (/\ Retained(pre[p], n)
          /\ VerAt(pre[p], n).st = Destroyed
          /\ CallsOn(p, {"destroyall"}) = {})
         => (Retained(store[p], n) /\ VerAt(store[p], n).st = Destroyed)
    /\ (/\ op.name = "undelete"
        /\ op.k = ""
        /\ op.fail = 0
        /\ HasMeta(pre[PRoot])
        /\ LET n == IF op.v = 0 THEN LastNum(pre[PRoot]) ELSE op.v
           IN Retained(pre[PRoot], n) /\ VerAt(pre[PRoot], n).st = Destroyed)
       => (err = "VersionDestroyed" /\ store = pre /\ log = <<>>)

\* C5 witness: an undelete of a Destroyed version next to a Deleted one
C5_Witness ==
  /\ pc = "done"
  /\ op.name = "undelete"
  /\ op.k = "" /\ op.v = 1 /\ op.fail = 0
  /\ mountV = 2
  /\ pre[PRoot].first = 1
  /\ Len(pre[PRoot].vers) = 2
  /\ pre[PRoot].vers[1].st = Destroyed
  /\ pre[PRoot].vers[2].st = Deleted
  /\ err = "VersionDestroyed"

\* the version a whole-secret Delete(destroy, not all) aims at
DestroyTarget == IF op.v = 0 THEN LastNum(pre[PRoot]) ELSE op.v

WholeSecretDestroy ==
  /\ pc = "done"
  /\ op.name = "delete"
  /\ op.k = ""
  /\ op.destroy /\ ~op.all
  /\ op.fail = 0
  /\ mountV = 2
  /\ HasMeta(pre[PRoot])

\* C7: whole-secret Delete with destroy and not all aims at the explicit
\* version, or the latest; it issues destroy-all iff every retained version
\* is already Destroyed or is the target, and otherwise one destroy of the
\* target alone (nothing at all when the target fails verification).
C7_DestroyEscalation ==
  WholeSecretDestroy =>
    LET m == pre[PRoot]
        t == DestroyTarget
        allGone == \A n \in m.first..LastNum(m) :
                     n = t \/ VerAt(m, n).st = Destroyed
    IN IF ~Retained(m, t) \/ VerAt(m, t).st = Destroyed
       THEN err # OK /\ log = <<>>
       ELSE /\ err = OK
            /\ Len(log) = 1
            /\ log[1].p = PRoot
            /\ IF allGone THEN log[1].call = "destroyall"
               ELSE log[1].call = "destroy" /\ log[1].vs = {t}

\* C7 witness: the older version is the target and the latest is Destroyed,
\* so the destroy escalates to destroy-all
C7_Witness ==
  /\ WholeSecretDestroy
  /\ Len(pre[PRoot].vers) = 2
  /\ op.v = pre[PRoot].first
  /\ pre[PRoot].vers[1].st = Deleted
  /\ pre[PRoot].vers[2].st = Destroyed
  /\ Len(log) = 1
  /\ log[1].call = "destroyall"

\* C8: a Move whose source-removal step fails returns that error.
C8_MoveReturnsRemovalError ==
  (/\ pc = "done"
   /\ op.name = "move"
   /\ Len(log) > 0
   /\ log[Len(log)].p = PRoot
   /\ log[Len(log)].call \in {"delete", "destroyall"}
   /\ ~log[Len(log)].ok)
  => err # OK

(* ----------------------- claims on the deep copy ----------------------- *)

\* a deep copy of the whole secret that returned success
DeepCopied ==
  /\ pc = "done"
  /\ op.name = "copy"
  /\ op.deep
  /\ op.k = "" /\ op.v = 0 /\ op.qk = "" /\ op.qv = 0
  /\ mountV = 2
  /\ err = OK

\* C6: after a successful deep copy the destination's versions are numbered
\* 1..N, N the source's newest number; a source version that was copied (an
\* Alive one, and a Deleted one with deletedVersions) sits at its own number
\* with its data and state, and every other number up to N (below the oldest
\* retained, Destroyed, or Deleted without deletedVersions) holds a Destroyed
\* version.
C6_DeepCopyNumbering ==
  DeepCopied =>
    LET s == pre[PRoot]
        d == store[QRoot]
    IN /\ HasMeta(d)
       /\ d.first = 1
       /\ LastNum(d) = LastNum(s)
       /\ \A n \in 1..LastNum(s) :
            IF Retained(s, n) /\ (VerAt(s, n).st = Alive
                                  \/ (VerAt(s, n).st = Deleted /\ op.delv))
            THEN VerAt(d, n) = VerAt(s, n)
            ELSE VerAt(d, n).st = Destroyed

\* C6 witness: [1:Destroyed, 2:Alive, 3:Deleted] copied with deletedVersions
\* onto an empty destination gives versions 1, 2, 3 in the same states
C6_Witness ==
  /\ DeepCopied
  /\ op.delv
  /\ pre[PRoot] = GenMeta(1, <<Destroyed, Alive, Deleted>>, <<{"k1"}, {"k1"}, {"k1"}>>)
  /\ pre[QRoot] = NoMeta
  /\ store[QRoot].first = 1
  /\ [i \in 1..3 |-> store[QRoot].vers[i].st] = <<Destroyed, Alive, Deleted>>

(* -------------------- claims on the recursive copy --------------------- *)

TreeDone == pc = "done" /\ op.name = "tree"

\* the listing of oldRoot: the paths beneath it that hold a secret, the
\* unreadable ones only for a deep operation
ListedLeaves ==
  SelectSeq(AllPathsSorted,
    LAMBDA q : /\ IsBelow(q, op.p)
               /\ HasMeta(pre[q])
               /\ (op.deep \/ Readable(pre[q])))

\* where leaf number i goes
LeafDest(i) == ReplaceRoot(ListedLeaves[i], op.p, op.q)

\* the destinations of listed leaves that a read finds
Colliding ==
  {LeafDest(i) : i \in 1..Len(ListedLeaves)} \cap {q \in AllPaths : Readable(pre[q])}

\* a recursive copy or move with skipIfExists, at least one of whose leaves
\* goes to a path that exists
SkipTreeOntoExisting ==
  /\ TreeDone
  /\ op.skip
  /\ Colliding # {}

StoppedBySkip ==
  /\ op.skip
  /\ \E i \in 1..Len(ListedLeaves) :
       /\ HasMeta(pre[LeafDest(i)])
       /\ (~op.deep \/ Readable(pre[LeafDest(i)]))

\* a recursive copy or move that went past the skipIfExists test
TreeRun == TreeDone /\ ~StoppedBySkip

\* op was invoked on oldRoot
RootApplied == Len(ops) = Len(ListedLeaves) + 1

LatestOf(m) == m.vers[Len(m.vers)]

\* the invocations follow the listing, the root last; only the last one may
\* have failed, and its error is the one returned
InOrderUntilError ==
  /\ Len(ops) <= Len(ListedLeaves) + 1
  /\ \A i \in 1..Len(ops) :
       /\ i <= Len(ListedLeaves) =>
            (ops[i].src = ListedLeaves[i] /\ ops[i].dst = LeafDest(i))
       /\ i > Len(ListedLeaves) => (ops[i].src = op.p /\ ops[i].dst = op.q)
       /\ i < Len(ops) => ops[i].err = OK
  /\ (ops # <<>> /\ ops[Len(ops)].err # OK) => err = ops[Len(ops)].err
  /\ err = OK => Len(ops) >= Len(ListedLeaves)

\* what was not reached is untouched, and a leaf that op completed keeps
\* its copy
NoLaterWorkNoUndo ==
  /\ \A i \in 1..Len(ListedLeaves) :
       IF i > Len(ops)
       THEN /\ CallsOn(ListedLeaves[i], Mutations) = {}
            /\ CallsOn(LeafDest(i), Mutations) = {}
            /\ store[ListedLeaves[i]] = pre[ListedLeaves[i]]
            /\ store[LeafDest(i)] = pre[LeafDest(i)]
       ELSE ops[i].err = OK =>
              /\ HasMeta(store[LeafDest(i)])
              /\ LatestOf(store[LeafDest(i)]) = LatestOf(pre[ListedLeaves[i]])
  /\ ~RootApplied =>
       /\ CallsOn(op.p, Mutations) = {}
       /\ CallsOn(op.q, Mutations) = {}
       /\ store[op.p] = pre[op.p]
       /\ store[op.q] = pre[op.q]

DeleteTreeDone == pc = "done" /\ op.name = "deletetree"

\* the leaves under root: every path beneath it that holds a secret, the
\* ones whose latest version is not Alive included
DiscoveredLeaves ==
  SelectSeq(AllPathsSorted, LAMBDA q : IsBelow(q, op.p) /\ HasMeta(pre[q]))

\* root, slashes trimmed, is not the mount's path
RootIsNotMount == op.p \notin mounts

\* the deletions of a complete run: one for each leaf, and one for root
\* unless it is the mount
FullRun == Len(DiscoveredLeaves) + (IF RootIsNotMount THEN 1 ELSE 0)

\* C11: DeleteTree deletes the discovered leaves (those whose latest version
\* is already deleted among them) in order, each before root; it then
\* deletes the node at root iff root differs from the mount's path; only the
\* last deletion it made can have failed, and then the run returns that
\* error and no later leaf and not root is touched.
C11_LeavesBeforeRoot ==
  (DeleteTreeDone /\ Len(DiscoveredLeaves) > 0 /\ op.fail # 1) =>
    LET L == DiscoveredLeaves
        n == Len(ops)
    IN /\ n <= FullRun
       /\ \A i \in 1..n : ops[i].src = (IF i <= Len(L) THEN L[i] ELSE op.p)
       /\ \A i \in 1..(n - 1) : ops[i].err = OK
       /\ Len(log) <= n
       /\ \A i \in 1..Len(log) : log[i].p = ops[i].src
       /\ \A q \in AllPaths : (\A j \in 1..n : ops[j].src # q) => store[q] = pre[q]
       /\ IF n > 0 /\ ops[n].err # OK THEN err = ops[n].err
          ELSE \/ err = OK /\ n = FullRun
               \/ err = "Transport" /\ n = Len(L)
       /\ op.fail = 0 =>
            /\ n >= Len(L)
            /\ (n = Len(L) + 1) <=> RootIsNotMount
            /\ \A i \in 1..Len(L) : ~Readable(store[L[i]])

\* C11 witness: the leaf a/x is already deleted, the deletion of the leaf
\* a/y fails, and the readable root a is left alone
C11_Witness ==
  /\ DeleteTreeDone
  /\ op.p = PRoot
  /\ Readable(pre[PRoot])
  /\ HasMeta(pre[<<"a", "x">>]) /\ ~Readable(pre[<<"a", "x">>])
  /\ Readable(pre[<<"a", "y">>])
  /\ Len(ops) = 2
  /\ ops[1] = [src |-> <<"a", "x">>, dst |-> <<"a", "x">>, err |-> OK]
  /\ ops[2].src = <<"a", "y">> /\ ops[2].err = "Transport"
  /\ err = "Transport"
  /\ store[PRoot] = pre[PRoot]

\* the numbers and lifecycle states of the versions a secret retains
StatesOf(m) == [first |-> m.first, sts |-> [i \in 1..Len(m.vers) |-> m.vers[i].st]]

\* C12: DeleteTree run again with the same options directly after a run
\* that succeeded returns success and leaves the lifecycle state of every
\* version of every secret under root as the first run left it (stated for
\* the second runs that still find a leaf under root).
C12_DeleteTreeIdempotent ==
  (pc = "again" /\ \E q \in AllPaths : IsBelow(q, op.p) /\ HasMeta(pre[q])) =>
    /\ err = OK
    /\ \A q \in AllPaths : StatesOf(store[q]) = StatesOf(pre[q])

(* ------------------ further claims on the engine ----------------------- *)

UndeleteDone == pc = "done" /\ op.name = "undelete"

\* the version an Undelete of the address aims at
UndeleteAim == IF op.v = 0 THEN LastNum(pre[PRoot]) ELSE op.v

\* C13: Undelete rejects a key-qualified address without a mutating backend
\* call; otherwise, on a secret with metadata, a target (the explicit
\* version, or the latest) below the oldest retained version or Destroyed
\* yields the Destroyed error, one above the newest the does-not-yet-exist
\* error, and in every other case exactly one undelete is issued, for the
\* target number alone, which succeeds on a versioned mount whether the
\* target was Deleted or already Alive and leaves the target Alive.
C13_Undelete ==
  (UndeleteDone /\ op.fail = 0) =>
    IF op.k # "" THEN err # OK /\ log = <<>> /\ store = pre
    ELSE HasMeta(pre[PRoot]) =>
      LET m == pre[PRoot]
          t == UndeleteAim
      IN IF t < m.first THEN err = "VersionDestroyed" /\ log = <<>>
         ELSE IF t > LastNum(m) THEN err = "VersionNotYet" /\ log = <<>>
         ELSE IF VerAt(m, t).st = Destroyed
              THEN err = "VersionDestroyed" /\ log = <<>>
         ELSE /\ Len(log) = 1
              /\ log[1].call = "undelete" /\ log[1].p = PRoot /\ log[1].vs = {t}
              /\ mountV = 2 =>
                   /\ err = OK
                   /\ VerAt(store[PRoot], t).st = Alive
                   /\ \A n \in m.first..LastNum(m) :
                        n # t => VerAt(store[PRoot], n) = VerAt(m, n)

\* C13 witness: the explicit target is the older version, already Alive,
\* next to a Deleted latest version; one undelete of the target succeeds
C13_Witness ==
  /\ UndeleteDone
  /\ op.k = "" /\ op.fail = 0
  /\ mountV = 2
  /\ Len(pre[PRoot].vers) = 2
  /\ op.v = pre[PRoot].first
  /\ pre[PRoot].vers[1].st = Alive
  /\ pre[PRoot].vers[2].st = Deleted
  /\ err = OK
  /\ Len(log) = 1 /\ log[1].call = "undelete" /\ log[1].vs = {op.v}
  /\ store = pre

\* C14: a Copy whose destination address carries a version, or that is deep
\* from a version-qualified source, returns an error and writes nothing,
\* whatever the other options and whether or not the destination exists.
C14_CopyRejectsVersionedTargets ==
  (/\ pc = "done"
   /\ op.name = "copy"
   /\ op.qv # 0 \/ (op.deep /\ op.v # 0))
  => (err # OK /\ log = <<>> /\ store = pre)

\* a Copy that reaches the branch on the source key: no failure injected,
\* not deep, skipIfExists unset, no version in the destination address
KeyLevelCopy ==
  /\ pc = "done"
  /\ op.name = "copy"
  /\ op.fail = 0
  /\ ~op.skip /\ ~op.deep
  /\ op.qv = 0

\* the source version a Copy reads
CopySourceNum == IF op.v = 0 THEN LastNum(pre[PRoot]) ELSE op.v

\* the data a read of the destination secret gave before the call
DestBefore ==
  IF Readable(pre[QRoot]) THEN LatestOf(pre[QRoot]).data ELSE Empty

\* the key a key-level Copy writes
DestKey == IF op.qk = "" THEN op.k ELSE op.qk

\* C15: a Copy whose source names a key of an Alive version issues one write,
\* of the destination's former data with the destination key (the source's
\* key name when the destination names none) set to the source key's value,
\* and so leaves every other key of the destination as it was; if the source
\* version does not hold the key it returns KeyNotFound and writes nothing;
\* a source without a key and a destination with one is rejected with an
\* error and no write.
C15_KeyLevelCopy ==
  KeyLevelCopy =>
    IF op.k = ""
    THEN op.qk # "" => (err # OK /\ log = <<>> /\ store = pre)
    ELSE (/\ Retained(pre[PRoot], CopySourceNum)
          /\ VerAt(pre[PRoot], CopySourceNum).st = Alive) =>
      IF ~SHas(VerAt(pre[PRoot], CopySourceNum).data, op.k)
      THEN IsKeyNotFound(err) /\ log = <<>> /\ store = pre
      ELSE /\ err = OK
           /\ Len(log) = 1
           /\ log[1].call = "set" /\ log[1].p = QRoot
           /\ store[PRoot] = pre[PRoot]
           /\ Readable(store[QRoot])
           /\ LatestOf(store[QRoot]).data[DestKey] =
                VerAt(pre[PRoot], CopySourceNum).data[op.k]
           /\ \A k \in Keys \ {DestKey} :
                LatestOf(store[QRoot]).data[k] = DestBefore[k]

\* C15 witness: the key k1 of an older source version goes to a destination
\* that holds k2 only; afterwards the destination holds both
C15_Witness ==
  /\ KeyLevelCopy
  /\ op.k = "k1" /\ op.qk = ""
  /\ op.v # 0 /\ op.v # LastNum(pre[PRoot])
  /\ Readable(pre[QRoot])
  /\ SKeys(DestBefore) = {"k2"}
  /\ err = OK
  /\ LatestOf(store[QRoot]).data =
       [DestBefore EXCEPT !["k1"] = VerAt(pre[PRoot], op.v).data["k1"]]
  /\ LatestOf(store[QRoot]).data["k1"] # 0

\* a Delete of a key of a readable secret, the address naming no version or
\* the latest one
KeyDelete ==
  /\ pc = "done"
  /\ op.name = "delete"
  /\ op.k # ""
  /\ op.fail = 0
  /\ Readable(pre[PRoot])
  /\ op.v = 0 \/ op.v = LastNum(pre[PRoot])

\* C16: Delete of a key-qualified address returns KeyNotFound and writes
\* nothing when the latest secret lacks the key; when the key is the only
\* one it writes no secret and deletes the whole secret instead; otherwise
\* it writes back the latest secret without that key, every other key as it
\* was.
C16_DeleteKey ==
  KeyDelete =>
    LET d == LatestOf(pre[PRoot]).data
    IN IF ~SHas(d, op.k)
       THEN IsKeyNotFound(err) /\ log = <<>> /\ store = pre
       ELSE IF SKeys(d) = {op.k}
       THEN /\ err = OK
            /\ Len(log) = 1
            /\ log[1].call = "delete" /\ log[1].p = PRoot
            /\ ~Readable(store[PRoot])
       ELSE /\ err = OK
            /\ Len(log) = 1
            /\ log[1].call = "set" /\ log[1].p = PRoot
            /\ Readable(store[PRoot])
            /\ LatestOf(store[PRoot]).data = [d EXCEPT ![op.k] = 0]

\* C16 witness: the only key of the latest version is deleted on a versioned
\* mount; no version is added and the latest one becomes Deleted
C16_Witness ==
  /\ KeyDelete
  /\ mountV = 2
  /\ op.k = "k1"
  /\ SKeys(LatestOf(pre[PRoot]).data) = {"k1"}
  /\ err = OK
  /\ Len(store[PRoot].vers) = Len(pre[PRoot].vers)
  /\ LatestOf(store[PRoot]).st = Deleted
  /\ log[1].call = "delete"

\* a Delete on a versioned mount of a secret that has metadata
DeleteOfSecret ==
  /\ pc = "done"
  /\ op.name = "delete"
  /\ op.fail = 0
  /\ mountV = 2
  /\ HasMeta(pre[PRoot])

\* the version a Delete of the address aims at
DeleteAim == IF op.v = 0 THEN LastNum(pre[PRoot]) ELSE op.v

\* the lifecycle states Delete requires: Alive, and Deleted too for destroy
RequiredStates == IF op.destroy THEN {Alive, Deleted} ELSE {Alive}

\* the verification Delete starts with passes: with all, some retained
\* version is in a required state; otherwise the target is
DeleteVerifies ==
  IF op.all
  THEN \E i \in 1..Len(pre[PRoot].vers) : pre[PRoot].vers[i].st \in RequiredStates
  ELSE /\ Retained(pre[PRoot], DeleteAim)
       /\ VerAt(pre[PRoot], DeleteAim).st \in RequiredStates

\* the semantic-delete guard refuses: the address names a key and a version
\* that is not the latest, and that key of that version does not read
GuardRefuses ==
  /\ op.k # ""
  /\ op.v # 0
  /\ op.v # LastNum(pre[PRoot])
  /\ \/ ~Retained(pre[PRoot], op.v)
     \/ VerAt(pre[PRoot], op.v).st # Alive
     \/ ~SHas(VerAt(pre[PRoot], op.v).data, op.k)

\* C17: Delete verifies before it mutates, requiring Alive without destroy
\* and Alive or Deleted with it, any version being enough with all.  When
\* the verification fails (a soft Delete of a Deleted target among the
\* cases) or the semantic-delete guard refuses, it returns an error and
\* issues no mutating call; when it passes for a whole secret (a destroy of
\* a Deleted target among the cases) the deletion is issued and succeeds.
C17_DeleteVerifiesFirst ==
  DeleteOfSecret =>
    /\ ~DeleteVerifies => (err # OK /\ log = <<>> /\ store = pre)
    /\ (~op.destroy /\ ~op.all /\ Retained(pre[PRoot], DeleteAim)
        /\ VerAt(pre[PRoot], DeleteAim).st = Deleted) => err = "IsDeleted"
    /\ GuardRefuses => (err # OK /\ log = <<>> /\ store = pre)
    /\ (DeleteVerifies /\ op.k = "") =>
         /\ err = OK
         /\ Len(log) = 1
         /\ log[1].p = PRoot
         /\ log[1].call \in (IF op.destroy THEN {"destroy", "destroyall"}
                             ELSE {"delete"})

\* C17 witness: a destroy aimed at a Deleted version next to an Alive one
\* goes through and destroys that version alone
C17_Witness ==
  /\ DeleteOfSecret
  /\ op.destroy /\ ~op.all /\ op.k = ""
  /\ Len(pre[PRoot].vers) = 2
  /\ op.v = pre[PRoot].first
  /\ pre[PRoot].vers[1].st = Deleted
  /\ pre[PRoot].vers[2].st = Alive
  /\ err = OK
  /\ log[1].call = "destroy" /\ log[1].vs = {op.v}
  /\ store[PRoot].vers[1].st = Destroyed

(* ------------------- further claims on the verifier -------------------- *)

\* the verified address reads as a leaf secret of an unversioned mount
ReadsAsLeaf ==
  /\ HasMeta(pre[PRoot])
  /\ op.v = 0 \/ Retained(pre[PRoot], op.v)

\* the verified path, given without a version, lists as a folder
ListsAsFolder ==
  /\ op.v = 0
  /\ \E q \in AllPaths : IsBelow(q, PRoot) /\ HasMeta(pre[q])

\* C18: on a v1 mount verifySecretState succeeds iff the address reads as a
\* leaf secret; when it does not read and the path lists as a folder the
\* error is the points-to-a-folder one, which is not of the not-found class;
\* when the path is neither, the error is not-found.  A mount version other
\* than 1 and 2 yields the unsupported-mount-version error.
C18_VerifyUnversioned ==
  (pc = "done" /\ op.name = "verify") =>
    /\ mountV = 1 =>
         /\ (err = OK) <=> ReadsAsLeaf
         /\ (~ReadsAsLeaf /\ ListsAsFolder) => (err = "Folder" /\ ~IsNotFound(err))
         /\ (~ReadsAsLeaf /\ ~ListsAsFolder) => IsSecretNotFound(err)
    /\ mountV \notin {1, 2} => err = "UnsupportedMount"
    /\ store = pre

\* C18 witness: nothing is stored at the path itself, a secret lies beneath
\* it, and the verifier answers with the folder error
C18_Witness ==
  /\ pc = "done" /\ op.name = "verify"
  /\ mountV = 1
  /\ ~HasMeta(pre[PRoot])
  /\ HasMeta(pre[<<"a", "x">>])
  /\ op.v = 0
  /\ err = "Folder"

(* --------------------------- claims on export -------------------------- *)

\* an export that printed a document
ExportDone == pc = "done" /\ op.name = "export" /\ err = OK

\* the document export printed
ExportDoc == CHOOSE d \in reported : TRUE

\* the leaves export fetched: those beneath an argument that the listing
\* keeps (a leaf whose latest version is not Alive only with --deleted)
ExportedLeaves ==
  {q \in AllPaths :
     /\ HasMeta(pre[q])
     /\ \E i \in 1..Len(op.args) : IsBelow(q, op.args[i].p)
     /\ op.delv \/ Readable(pre[q])}

\* how many versions of leaf q were fetched, and the number of the oldest
FetchedCount(q) == IF op.all THEN Len(pre[q].vers) ELSE 1

FetchedFirst(q) == IF op.all THEN pre[q].first ELSE LastNum(pre[q])

\* the leaves fetched with two or more versions
ManyVersioned == {q \in ExportedLeaves : FetchedCount(q) > 1}

\* the mount of path q as MountPath names it
MountName(q) == (CHOOSE m \in mounts : IsMountOf(m, q)) \o <<"">>

\* the document is the envelope of format version 2 the claim describes
IsEnvelope(d) ==
  /\ d.json = "array"
  /\ Len(d.elems) = 1
  /\ d.elems[1].export_version = JNum(2)
  /\ DOMAIN d.elems[1].data = ExportedLeaves
  /\ \A q \in ExportedLeaves :
       d.elems[1].data[q].first = {} <=> (FetchedFirst(q) = 1 \/ op.shallow)
  /\ d.elems[1].requires_versioning = {MountName(q) : q \in ManyVersioned}

\* the format export chose is the one the claim names
FormatAsClaimed ==
  /\ Cardinality(reported) = 1
  /\ ExportDoc.json = "object" <=> ManyVersioned = {}
  /\ ManyVersioned # {} => IsEnvelope(ExportDoc)

\* C19: export prints the legacy object if and only if every fetched entry
\* has exactly one version; otherwise it prints the one-element array of
\* export_version 2, where 'first' is omitted exactly when the oldest
\* fetched number is 1 or shallow is set, and requires_versioning names
\* exactly the mounts that hold an entry with more than one version
C19_ExportFormat == ExportDone => FormatAsClaimed

\* the same, for the runs in which no call to the backend failed
C19_ExportFormatNoFailure == (ExportDone /\ op.fail = 0) => FormatAsClaimed

\* an export over both mounts where only the secret of one mount has two
\* versions, numbered from 2 on
C19_Witness ==
  /\ ExportDone
  /\ op.fail = 0
  /\ ~op.shallow
  /\ Len(op.args) = 2
  /\ <<"b", "x">> \in ExportedLeaves
  /\ ManyVersioned = {<<"a", "x">>}
  /\ FetchedFirst(<<"a", "x">>) = 2
  /\ IsEnvelope(ExportDoc)
  /\ ExportDoc.elems[1].requires_versioning = {<<"a", "">>}
  /\ ExportDoc.elems[1].data[<<"a", "x">>].first = {2}
  /\ ExportDoc.elems[1].data[<<"b", "x">>].first = {}

(* --------------------------- claims on import -------------------------- *)

\* an import that got past its option check
ImportDone == pc = "done" /\ op.name = "import" /\ ~op.skip

\* the input is a JSON object
IsLegacyShape == op.doc.json = "object"

\* the input is an array of one object that declares export_version 2
IsEnvelopeShape ==
  /\ op.doc.json = "array"
  /\ Len(op.doc.elems) = 1
  /\ op.doc.elems[1].json = "object"
  /\ "export_version" \in DOMAIN op.doc.elems[1]
  /\ op.doc.elems[1].export_version = JNum(2)

\* the paths the input names
ImportPaths == DOMAIN DocData(op.doc)

\* the run made plain writes only, one for each path when nothing failed,
\* and each path then reads as the data the object gave it
ImportedAsLegacy ==
  /\ err # "UnknownFormat"
  /\ \A i \in 1..Len(log) : log[i].call = "set" /\ log[i].p \in ImportPaths
  /\ (op.fail = 0 /\ \A p \in ImportPaths : IsSecretJSON(op.doc.data[p])) =>
       /\ err = OK
       /\ Len(log) = Cardinality(ImportPaths)
       /\ \A p \in ImportPaths :
            /\ Readable(store[p])
            /\ store[p].vers[Len(store[p].vers)].data = op.doc.data[p]

\* the flagged mounts pass the check of the versioned import
MountsPass == op.shallow \/ DocMounts(op.doc) = {} \/ mountV = 2

\* the run replayed version lists: what it wrote first was a clearing of a
\* destination, and when nothing failed every path was cleared and written
ImportedAsEnvelope ==
  /\ err # "UnknownFormat"
  /\ log # <<>> => log[1].call = "destroyall" /\ log[1].p \in ImportPaths
  /\ ~MountsPass => err # OK /\ log = <<>>
  /\ (op.fail = 0 /\ MountsPass) =>
       /\ err = OK
       /\ \A p \in ImportPaths :
            \E i, j \in 1..Len(log) :
              /\ i < j
              /\ log[i].call = "destroyall" /\ log[i].p = p
              /\ log[j].call = "set" /\ log[j].p = p

\* the run refused the input and left the backend alone
ImportRefused == err = "UnknownFormat" /\ log = <<>> /\ store = pre

\* C20: import takes a top-level JSON object for a legacy document and a
\* one-element array whose element declares export_version 2 for the
\* versioned envelope; every other input (an array of another length,
\* another export_version, a scalar, input that is not JSON) is answered
\* with the unknown-format error and without a write to the backend
C20_ImportDetectsByShape ==
  ImportDone =>
    /\ IsLegacyShape => ImportedAsLegacy
    /\ IsEnvelopeShape => ImportedAsEnvelope
    /\ (~IsLegacyShape /\ ~IsEnvelopeShape) => ImportRefused

\* a one-element array that declares export_version 3 and names a secret
\* is refused, and the secret the backend holds at that path is untouched
C20_Witness ==
  /\ ImportDone
  /\ op.doc.json = "array"
  /\ Len(op.doc.elems) = 1
  /\ op.doc.elems[1].json = "object"
  /\ "export_version" \in DOMAIN op.doc.elems[1]
  /\ op.doc.elems[1].export_version = JNum(3)
  /\ <<"a", "x">> \in ImportPaths
  /\ HasMeta(pre[<<"a", "x">>])
  /\ ImportRefused

\* an import of a versioned envelope
VersionedImport == ImportDone /\ IsEnvelopeShape

\* the number of mounts the envelope flags
Flagged == Cardinality(DocMounts(op.doc))

\* a flagged mount is not a v2 mount, or the lookup of one fails
MountCheckFails == Flagged > 0 /\ (mountV # 2 \/ op.fail \in 1..Flagged)

\* C21: a versioned import that is not shallow checks every mount flagged
\* in requires_versioning before it writes: when a flagged mount is not a
\* v2 mount or its version cannot be determined, the import returns an
\* error and nothing was written, deleted or destroyed, and the first write
\* comes after the last lookup; with shallow set there is no lookup, the
\* first backend call is a write
C21_MountsCheckedBeforeWrites ==
  VersionedImport =>
    /\ (~op.shallow /\ MountCheckFails) =>
         err # OK /\ log = <<>> /\ store = pre
    /\ (~op.shallow /\ ~MountCheckFails /\ op.fail = Flagged + 1) =>
         Len(log) = 1 /\ ~log[1].ok
    /\ (op.shallow /\ op.fail = 0) => err = OK /\ log # <<>>
    /\ (op.shallow /\ op.fail = 1) => Len(log) = 1 /\ ~log[1].ok

\* two mounts are flagged, the first lookup answers 2 and the second one
\* fails: the import ends in an error and the secret at a/x is untouched
C21_Witness ==
  /\ VersionedImport
  /\ ~op.shallow
  /\ Flagged = 2
  /\ mountV = 2
  /\ op.fail = 2
  /\ HasMeta(pre[<<"a", "x">>])
  /\ err = "MountVersionUnknown"
  /\ log = <<>>
  /\ store = pre

(* ---------------------- claims on export and import -------------------- *)

\* the export was imported into an empty tree
RoundTripDone == pc = "imported"

\* the latest version of m
Latest(m) == m.vers[Len(m.vers)]

\* the import wrote exactly the secrets the export read, each with the
\* keys and values it had
SameTree ==
  /\ err = OK
  /\ \A q \in AllPaths : Readable(store[q]) <=> q \in ExportedLeaves
  /\ \A q \in ExportedLeaves : Latest(store[q]).data = Latest(pre[q]).data

\* C22: for a tree in which every secret has a single version, importing
\* its export into an empty tree gives the same set of paths, and at each
\* path the same keys and values
C22_LegacyRoundTrip == RoundTripDone => SameTree

\* the same, for the trees in which every secret holds a key
C22_RoundTripOfKeyedSecrets ==
  (RoundTripDone /\ \A q \in ExportedLeaves : ~SEmpty(Latest(pre[q]).data))
    => SameTree

\* both mounts were exported and three secrets came back as they were
C22_Witness ==
  /\ RoundTripDone
  /\ ExportDoc.json = "object"
  /\ Cardinality(ExportedLeaves) = 3
  /\ SEmpty(Latest(pre[<<"a", "x">>]).data) = FALSE
  /\ Latest(pre[<<"a", "y">>]).data # Latest(pre[<<"a", "x">>]).data
  /\ SameTree

(* ------------------------ claims on the addresses ---------------------- *)

\* an address was encoded and parsed
AddressDone == pc = "done" /\ op.name = "address"

\* parsing gave back the path, the key and the version that were encoded
RoundTrips == reported = {[path |-> op.p, key |-> op.k, version |-> op.v]}

\* C23: for every path, key and version (0 for none), the paths and keys
\* that hold ':' or '^' included, ParsePath(EncodePath(path, key, version))
\* is (path, key, version)
C23_AddressRoundTrip == AddressDone => RoundTrips

\* the part of an address that a delimiter follows ends in a backslash
BackslashBeforeDelimiter ==
  \/ op.p # <<>> /\ op.p[Len(op.p)] = "\\" /\ (op.k # <<>> \/ op.v # 0)
  \/ op.k # <<>> /\ op.k[Len(op.k)] = "\\" /\ op.v # 0

\* the round trip of every address in which no delimiter follows a
\* backslash
C23_RoundTripWithoutBackslashEnd ==
  (AddressDone /\ ~BackslashBeforeDelimiter) => RoundTrips

\* a path with ':' and a key with '^', with a version of two digits
C23_Witness ==
  /\ AddressDone
  /\ op.p = <<"a", ":", "7">>
  /\ op.k = <<"^", "a">>
  /\ op.v = 21
  /\ RoundTrips

(* ----------------------- claims on ComputeChanges ---------------------- *)

ChangesDone == pc = "done" /\ op.name = "changes"

\* the ChangeSet that the call returned
ChangeSetOf == CHOOSE cs \in reported : TRUE

\* the data a path has locally: that of its last entry
LocalDataAt(path) ==
  local[CHOOSE i \in 1..Len(local) :
          /\ local[i].path = path
          /\ \A j \in 1..Len(local) : local[j].path = path => j <= i].data

\* the type the claim gives the change of a path
TypeClaimed(path) ==
  IF path \notin DOMAIN op.remote THEN ChangeAdd
  ELSE IF path \notin LocalPaths(local) THEN ChangeDelete
  ELSE IF LocalDataAt(path) = op.remote[path] THEN ChangeNone
  ELSE ChangeModify

\* C24: ComputeChanges returns exactly one change for each distinct path of
\* the union of the local and the remote paths, in ascending path order,
\* typed Add iff the path is local only, Delete iff it is remote only, None
\* iff both exist with equal data and Modify iff both exist and the data
\* differ; HasChanges is true iff some change is not None.
C24_ComputeChanges ==
  ChangesDone =>
    /\ Len(ChangeSetOf) = Cardinality(LocalPaths(local) \cup DOMAIN op.remote)
    /\ {ChangeSetOf[i].path : i \in 1..Len(ChangeSetOf)}
         = LocalPaths(local) \cup DOMAIN op.remote
    /\ \A i \in 1..Len(ChangeSetOf) : \A j \in 1..Len(ChangeSetOf) :
         i < j => StringLess(ChangeSetOf[i].path, ChangeSetOf[j].path)
    /\ \A i \in 1..Len(ChangeSetOf) :
         ChangeSetOf[i].type = TypeClaimed(ChangeSetOf[i].path)
    /\ HasChanges(ChangeSetOf)
         <=> \E i \in 1..Len(ChangeSetOf) : ChangeSetOf[i].type # ChangeNone

\* a call that returned a None, a Delete and a Modify, the Modify for a
\* remote secret that holds one key more than the local one
C24_Witness ==
  /\ ChangesDone
  /\ \E i \in 1..Len(ChangeSetOf) : ChangeSetOf[i].type = ChangeNone
  /\ \E i \in 1..Len(ChangeSetOf) :
       /\ ChangeSetOf[i].type = ChangeModify
       /\ DOMAIN ChangeSetOf[i].localData = {"k1"}
       /\ DOMAIN ChangeSetOf[i].remoteData = {"k1", "k2"}
       /\ ChangeSetOf[i].localData["k1"] = ChangeSetOf[i].remoteData["k1"]
  /\ \E i \in 1..Len(ChangeSetOf) : ChangeSetOf[i].type = ChangeDelete

(* ------------------------- claims on sync pull ------------------------- *)

PullDone == pc = "done" /\ op.name = "pull"

\* what the call returned: the local state it left, the paths it wrote,
\* the prompts it made
PullResult == CHOOSE r \in reported : TRUE

\* the remote secrets beneath the synchronised path, as path strings
RemoteSecrets ==
  {PathString(q) : q \in {l \in SyncLeaves : HasMeta(pre[l])}}

\* the expanded data of the remote secret at the path string s
RemoteDataAt(s) ==
  SecretToExpandedMap(
    pre[PathOfString(s)].vers[Len(pre[PathOfString(s)].vers)].data)

\* the data of the file at s in a local state
FileAt(secrets, s) ==
  secrets[CHOOSE i \in 1..Len(secrets) : secrets[i].path = s].data

\* the remote secrets whose local file differs, in the order Pull meets them
Conflicts ==
  SelectSeq(SortStrings(RemoteSecrets),
            LAMBDA s : /\ s \in LocalPaths(op.doc)
                       /\ FileAt(op.doc, s) # RemoteDataAt(s))

\* the answers among l, r and s that the user gave, in order
ValidAnswers ==
  SelectSeq(op.answers, LAMBDA a : a \in {<<"l">>, <<"r">>, <<"s">>})

\* the answer that settles the k-th conflict
Settling(k) ==
  IF k <= Len(ValidAnswers) THEN ValidAnswers[k] ELSE op.rest

\* the place of s among the conflicts
ConflictIndex(s) == CHOOSE k \in 1..Len(Conflicts) : Conflicts[k] = s

\* the prompts that settle every conflict: each answer up to the last one
\* that is needed
PromptsNeeded ==
  IF Len(Conflicts) = 0 THEN 0
  ELSE IF Len(Conflicts) <= Len(ValidAnswers)
  THEN CHOOSE n \in 1..Len(op.answers) :
         /\ op.answers[n] \in {<<"l">>, <<"r">>, <<"s">>}
         /\ Cardinality({j \in 1..n :
               op.answers[j] \in {<<"l">>, <<"r">>, <<"s">>}}) = Len(Conflicts)
  ELSE Len(op.answers) + Len(Conflicts) - Len(ValidAnswers)

\* C25: for each remote secret Pull writes the missing local file with the
\* remote data, does not write a local file equal to the remote, overwrites
\* a differing local file with the remote data only when stdin is no
\* terminal or the user answers r, leaves it unchanged when the user answers
\* l or s, and repeats the prompt on any other answer; Pull never writes to
\* the Vault and never deletes from it.
C25_PullConflicts ==
  PullDone =>
    /\ log = <<>>
    /\ store = pre
    /\ err # OK => local = op.doc
    /\ err = OK =>
         /\ \A s \in RemoteSecrets :
              IF s \notin LocalPaths(op.doc)
              THEN /\ s \in LocalPaths(local)
                   /\ FileAt(local, s) = RemoteDataAt(s)
                   /\ s \in SeqToSet(PullResult.written)
              ELSE IF FileAt(op.doc, s) = RemoteDataAt(s)
              THEN /\ FileAt(local, s) = FileAt(op.doc, s)
                   /\ s \notin SeqToSet(PullResult.written)
              ELSE IF ~op.tty \/ Settling(ConflictIndex(s)) = <<"r">>
              THEN /\ FileAt(local, s) = RemoteDataAt(s)
                   /\ s \in SeqToSet(PullResult.written)
              ELSE /\ FileAt(local, s) = FileAt(op.doc, s)
                   /\ s \notin SeqToSet(PullResult.written)
         /\ \A s \in LocalPaths(op.doc) \ RemoteSecrets :
              /\ s \in LocalPaths(local)
              /\ FileAt(local, s) = FileAt(op.doc, s)
         /\ LocalPaths(local) = LocalPaths(op.doc) \cup RemoteSecrets
         /\ PullResult.asked = IF op.tty THEN PromptsNeeded ELSE 0

\* a Pull on a terminal with two conflicts: the answer x repeats the prompt,
\* r overwrites a/x, s leaves a/y as it was; three prompts in all
C25_Witness ==
  /\ PullDone
  /\ err = OK
  /\ op.tty
  /\ op.answers = <<<<"x">>, <<"r">>>>
  /\ op.rest = <<"s">>
  /\ Len(Conflicts) = 2
  /\ PullResult.asked = 3
  /\ PullResult.written = <<<<"a", "/", "x">>>>
  /\ FileAt(local, <<"a", "/", "x">>) = RemoteDataAt(<<"a", "/", "x">>)
  /\ FileAt(local, <<"a", "/", "y">>) # RemoteDataAt(<<"a", "/", "y">>)

(* ------------------------- claims on sync apply ------------------------ *)

ApplyDone == pc = "done" /\ op.name = "apply"

\* what the call returned: its plan, the prompts it made, its calls of
\* Write and Delete
ApplyResult == CHOOSE r \in reported : TRUE

Confirmed == op.answers[1] \in {<<"y">>, <<"y", "e", "s">>}

\* the call that a change of the plan asks for
CallFor(c) ==
  [call |-> IF c.type = ChangeDelete THEN "Delete" ELSE "Write",
   path |-> c.path]

\* the calls that the plan asks for, in plan order
CallsPlanned ==
  [i \in 1..Len(SelectSeq(ApplyResult.cs, LAMBDA c : c.type # ChangeNone)) |->
     CallFor(SelectSeq(ApplyResult.cs, LAMBDA c : c.type # ChangeNone)[i])]

\* Apply left the Vault alone
VaultUntouched == log = <<>> /\ store = pre /\ ApplyResult.calls = <<>>

\* C26 as stated: Apply changes the Vault only after confirmation: without
\* changes in the plan it neither prompts nor calls Write or Delete; on an
\* answer other than y or yes it calls neither and returns success; after
\* confirmation it calls Write once for each Add and Modify change and
\* Delete once for each Delete change, in plan order, never for a None
\* change.
C26_ApplyAfterConfirmation ==
  ApplyDone =>
    /\ ~HasChanges(ApplyResult.cs) => ApplyResult.asked = 0 /\ VaultUntouched
    /\ HasChanges(ApplyResult.cs) /\ ~Confirmed =>
         ApplyResult.asked = 1 /\ VaultUntouched /\ err = OK
    /\ HasChanges(ApplyResult.cs) /\ Confirmed =>
         ApplyResult.asked = 1 /\ ApplyResult.calls = CallsPlanned

\* C26 amended: as C26, the calls after confirmation being those of the
\* plan, in plan order, up to the first call that fails; Apply returns that
\* call's error and makes no further call, and makes every call of the plan
\* when it returns success.
C26_ApplyUntilFirstError ==
  ApplyDone =>
    /\ ~HasChanges(ApplyResult.cs) => ApplyResult.asked = 0 /\ VaultUntouched
    /\ HasChanges(ApplyResult.cs) /\ ~Confirmed =>
         ApplyResult.asked = 1 /\ VaultUntouched /\ err = OK
    /\ HasChanges(ApplyResult.cs) /\ Confirmed =>
         /\ ApplyResult.asked = 1
         /\ Len(ApplyResult.calls) <= Len(CallsPlanned)
         /\ ApplyResult.calls = SubSeq(CallsPlanned, 1, Len(ApplyResult.calls))
         /\ err = OK => ApplyResult.calls = CallsPlanned
         /\ err # OK => Len(ApplyResult.calls) > 0

\* a confirmed Apply whose first call failed, a second change left undone
C26_Witness ==
  /\ ApplyDone
  /\ Confirmed
  /\ err # OK
  /\ Len(CallsPlanned) = 2
  /\ Len(ApplyResult.calls) = 1

\* a confirmed Apply that made a Write and a Delete and returned success
C26_WitnessComplete ==
  /\ ApplyDone
  /\ Confirmed
  /\ err = OK
  /\ ApplyResult.calls
       = <<[call |-> "Write", path |-> <<"a", "/", "x">>],
           [call |-> "Delete", path |-> <<"a", "/", "y">>]>>

(* ----------------------- claims on apply, then plan -------------------- *)

PlannedAgain ==
  /\ pc = "planned"
  /\ Len(op.answers) > 0
  /\ op.answers[1] \in {<<"y">>, <<"y", "e", "s">>}
  /\ err = OK

\* the ChangeSet of the second Plan
PlanOf == CHOOSE cs \in reported : TRUE

\* C28: after an Apply that was confirmed and returned success, a following
\* Plan over the same local directory and Vault path reports no changes,
\* whatever the local secrets hold.
C28_ApplyConverges == PlannedAgain => ~HasChanges(PlanOf)

\* every local value is a string that ExpandValue returns as it is, and no
\* local secret is without keys
PlainLocal ==
  \A i \in 1..Len(local) :
    /\ DOMAIN local[i].data # {}
    /\ \A k \in DOMAIN local[i].data :
         /\ local[i].data[k].json = "string"
         /\ ExpandValue(local[i].data[k].s) = local[i].data[k]

\* Apply converges for local secrets of plain strings
C28_ConvergesForPlainStrings ==
  PlannedAgain /\ PlainLocal => ~HasChanges(PlanOf)

\* a second Plan after an Apply that wrote plain strings
C28_Witness ==
  /\ PlannedAgain
  /\ PlainLocal
  /\ Len(local) = 2
  /\ Len(log) > 0

(* --------------------- claims on the move of a secret ------------------ *)

MoveSecretDone == pc = "done" /\ op.name = "movesecret"

\* the latest version of the history m is Alive
LatestAlive(m) == HasMeta(m) /\ m.vers[Len(m.vers)].st = Alive

\* the data readable as the latest version of m
LatestData(m) == m.vers[Len(m.vers)].data

\* the data the source held before the call are readable at p after it
KeptAt(p) ==
  /\ LatestAlive(store[p])
  /\ LatestData(store[p]) = LatestData(pre[PRoot])

\* C27: Move loses no data: after any call Move(src, dst, opts), whether it
\* returns success or an error, with src equal to dst and with skipIfExists
\* and an existing destination included, the data that were readable as the
\* latest Alive version at src before the call are readable as the latest
\* Alive version at src or at dst.
C27_MoveLosesNoData ==
  MoveSecretDone /\ LatestAlive(pre[PRoot]) => KeptAt(PRoot) \/ KeptAt(op.q)

\* Move loses no data when the destination is another path and the copy is
\* not refused for an existing destination
C27_MoveToFreshElsewhere ==
  MoveSecretDone /\ LatestAlive(pre[PRoot]) /\ op.q # PRoot
    /\ ~(op.skip /\ LatestAlive(pre[op.q]))
  => KeptAt(PRoot) \/ KeptAt(op.q)

\* a move that returned success and left the data at the destination alone
C27_Witness ==
  /\ MoveSecretDone
  /\ LatestAlive(pre[PRoot])
  /\ op.q = QRoot
  /\ ~op.skip
  /\ err = OK
  /\ ~KeptAt(PRoot)
  /\ KeptAt(QRoot)

(* ------------------- claims on export's deduplication ------------------ *)

\* the paths of the secrets in an exported document
DocPaths(d) ==
  IF d.json = "array" THEN DOMAIN d.elems[1].data ELSE DOMAIN d.data

\* both trees were given: a and ab
BothTreesGiven ==
  {op.args[i].p : i \in 1..Len(op.args)} = {PRoot, RRoot}

\* C29: export drops an input path only when another given path is the same
\* path or one of its ancestors, so every secret under every given path is
\* in the export; a path that only shares a string prefix with another
\* given path (ab next to a) is still exported.
C29_ExportKeepsPrefixSiblings ==
  ExportDone => ExportedLeaves \subseteq DocPaths(ExportDoc)

\* export drops no secret when no given path is a string prefix of a given
\* path that is not beneath it
C29_ExportOfUnrelatedPaths ==
  ExportDone /\ ~BothTreesGiven => DocPaths(ExportDoc) = ExportedLeaves

\* an export of a tree and a leaf of it: the leaf is dropped from the
\* arguments and exported with the tree
C29_Witness ==
  /\ ExportDone
  /\ op.args = <<Addr(PRoot, "", 0), Addr(<<"a", "x">>, "", 0)>>
  /\ DocPaths(ExportDoc) = {<<"a", "x">>}

(* ---------------------- claims on undelete --all ----------------------- *)

UndeleteAllDone == pc = "done" /\ op.name = "undeleteall"

\* the backend undelete call of the handler failed
BackendUndeleteFailed ==
  \E i \in 1..Len(log) : log[i].call = "undelete" /\ ~log[i].ok

\* the path given carries a key or a version
Qualified == op.k # "" \/ op.v > 0

\* the handler refused the path before it made a backend call: it returns
\* the refusal even when the first backend call is the one that would fail
RefusedUnasked ==
  /\ err = (IF op.k # "" THEN "UndeleteKey" ELSE "AllWithVersion")
  /\ log = <<>>
  /\ store = pre

\* C30: undelete --all returns an error whenever the backend undelete call
\* for the versions of the secret fails, as the undelete of one version
\* does, and it refuses a path with a key or a version with an error before
\* any backend call.
C30_UndeleteAllReturnsErrors ==
  UndeleteAllDone =>
    /\ BackendUndeleteFailed => err # OK
    /\ Qualified => RefusedUnasked

\* undelete --all refuses a path with a key or a version before any backend
\* call, and returns the error of a failing listing of the versions
C30_UndeleteAllRefusesQualified ==
  UndeleteAllDone =>
    /\ Qualified => RefusedUnasked
    /\ ~Qualified /\ op.fail = 1 => err = "Transport" /\ log = <<>>

\* the undelete of one version returns the error of its backend call
C30_UndeleteReturnsBackendError ==
  pc = "done" /\ op.name = "undelete" /\ BackendUndeleteFailed => err # OK

\* a path with a version refused by undelete --all although the first
\* backend call would have failed
C30_Witness ==
  /\ UndeleteAllDone
  /\ op.v > 0
  /\ op.k = ""
  /\ op.fail = 1
  /\ RefusedUnasked

====
